---- MODULE Spec2Model ----
(***************************************************************************)
(* archive_clean_and_rename.py: the directory phase, the two-step file     *)
(* phase and main(), over a file system held as a set of directory paths   *)
(* and a map from file paths to contents.  A name is a string, a path the  *)
(* sequence of names below root (root itself is <<>>).                     *)
(***************************************************************************)
EXTENDS Integers, Sequences, FiniteSets, TLC

(***************************************************************************)
(* Bounds of the model.                                                    *)
(***************************************************************************)
MaxDirs == 2
MaxFiles == 2
MaxFaults == 2
MaxLen == 3
MaxAttempts == 2
MaxListing == 3
MaxLogLines == 3

(***************************************************************************)
(* Configuration of the program.                                           *)
(***************************************************************************)
ALLOWED_EXTS == {".tif", ".tiff", ".jpg", ".jpeg", ".png", ".pdf"}
MAX_RELATIVE_DEPTH == 4
TMP_DIR_PREFIX == "._tmp_archive_renamer_"
DefaultMaxAttempts == 99
SeqWidth == 4
Pid == "7"

(***************************************************************************)
(* Strings.                                                                *)
(***************************************************************************)
LowerLetters == "abcdefghijklmnopqrstuvwxyz"
UpperLetters == "ABCDEFGHIJKLMNOPQRSTUVWXYZ"
DigitChars == "0123456789"
WhiteChars == {" ", "\t"}
\* U+0308 COMBINING DIAERESIS, written with the spacing diaeresis
CombiningDiaeresis == "¨"

CharAt(s, i) == SubSeq(s, i, i)
CharsOf(s) == {CharAt(s, i) : i \in 1..Len(s)}
IndexIn(c, s) == CHOOSE i \in 1..Len(s) : CharAt(s, i) = c
UpperSet == CharsOf(UpperLetters)
DigitSet == CharsOf(DigitChars)
DigitValOf == [c \in DigitSet |-> IndexIn(c, DigitChars) - 1]
LowerOf == [c \in UpperSet |-> CharAt(LowerLetters, IndexIn(c, UpperLetters))]
IsDigitChar(c) == c \in DigitSet
IsDigitStr(s) == Len(s) > 0 /\ \A i \in 1..Len(s) : IsDigitChar(CharAt(s, i))
DigitVal(c) == DigitValOf[c]

RECURSIVE StrToInt(_)
StrToInt(s) ==
    IF Len(s) = 0 THEN 0
    ELSE 10 * StrToInt(SubSeq(s, 1, Len(s) - 1)) + DigitVal(CharAt(s, Len(s)))

RECURSIVE IntToStr(_)
IntToStr(n) ==
    IF n < 10 THEN CharAt(DigitChars, n + 1)
    ELSE IntToStr(n \div 10) \o CharAt(DigitChars, (n % 10) + 1)

RECURSIVE ZeroPad(_, _)
ZeroPad(s, w) == IF Len(s) >= w THEN s ELSE ZeroPad("0" \o s, w)

\* f"{seq:04d}"
FormatSeq(n) == ZeroPad(IntToStr(n), SeqWidth)

\* str.lower() on one character
LowerChar(c) ==
    IF c \in UpperSet THEN LowerOf[c]
    ELSE IF c = "Ä" THEN "ä"
    ELSE IF c = "Ö" THEN "ö"
    ELSE IF c = "Ü" THEN "ü"
    ELSE c

\* unicodedata.normalize('NFKD', c) on one character: a precomposed umlaut
\* decomposes into its base letter followed by U+0308 (written CombiningDiaeresis).
NfkdChar(c) ==
    CASE c = "ä" -> "a" \o CombiningDiaeresis
      [] c = "ö" -> "o" \o CombiningDiaeresis
      [] c = "ü" -> "u" \o CombiningDiaeresis
      [] c = "Ä" -> "A" \o CombiningDiaeresis
      [] c = "Ö" -> "O" \o CombiningDiaeresis
      [] c = "Ü" -> "U" \o CombiningDiaeresis
      [] OTHER -> c

RECURSIVE MapChars(_, _)
MapChars(F(_), s) ==
    IF Len(s) = 0 THEN "" ELSE F(CharAt(s, 1)) \o MapChars(F, Tail(s))

\* name.replace('ä','ae').replace('ö','oe').replace('ü','ue').replace('ß','ss')
UmlautChar(c) ==
    CASE c = "ä" -> "ae"
      [] c = "ö" -> "oe"
      [] c = "ü" -> "ue"
      [] c = "ß" -> "ss"
      [] OTHER -> c

\* name.replace('/', '--'); name.replace('+', '..')
PathChar(c) ==
    CASE c = "/" -> "--"
      [] c = "+" -> ".."
      [] OTHER -> c

\* re.sub(r'\s+', '_', name)
RECURSIVE CollapseWhite(_)
CollapseWhite(s) ==
    IF Len(s) = 0 THEN ""
    ELSE IF CharAt(s, 1) \in WhiteChars
         THEN IF Len(s) > 1 /\ CharAt(s, 2) \in WhiteChars
              THEN CollapseWhite(Tail(s))
              ELSE "_" \o CollapseWhite(Tail(s))
         ELSE CharAt(s, 1) \o CollapseWhite(Tail(s))

\* name.replace(',', '')
CommaChar(c) == IF c = "," THEN "" ELSE c

\* mutant: every character is kept
AllowedCharAny(c) == c

\* _ALLOWED_NAME_RE = [^a-z0-9._-] ; sub('', name)
AllowedNameChars == CharsOf(LowerLetters) \cup DigitSet \cup {".", "_", "-"}
AllowedChar(c) == IF c \in AllowedNameChars THEN c ELSE ""

\* length of the run of character c at the head of s
RECURSIVE RunLen(_, _)
RunLen(c, s) ==
    IF Len(s) > 0 /\ CharAt(s, 1) = c THEN 1 + RunLen(c, Tail(s)) ELSE 0

\* re.sub(r'[c]{2,}', rep, name)
RECURSIVE CollapseRuns(_, _, _)
CollapseRuns(c, rep, s) ==
    IF Len(s) = 0 THEN ""
    ELSE LET n == RunLen(c, s) IN
         IF n >= 2 THEN rep \o CollapseRuns(c, rep, SubSeq(s, n + 1, Len(s)))
         ELSE CharAt(s, 1) \o CollapseRuns(c, rep, Tail(s))

\* name.strip('._-')
StripChars == {".", "_", "-"}
RECURSIVE LStrip(_)
LStrip(s) == IF Len(s) > 0 /\ CharAt(s, 1) \in StripChars THEN LStrip(Tail(s)) ELSE s
RECURSIVE RStrip(_)
RStrip(s) ==
    IF Len(s) > 0 /\ CharAt(s, Len(s)) \in StripChars
    THEN RStrip(SubSeq(s, 1, Len(s) - 1)) ELSE s
Strip(s) == RStrip(LStrip(s))

\* mutant: a single leading zero is dropped
StripOneLeadingZero(s) ==
    IF IsDigitStr(s) /\ Len(s) > 1 /\ CharAt(s, 1) = "0" THEN Tail(s) ELSE s

\* if name.isdigit(): name = str(int(name))
StripLeadingZeros(s) == IF IsDigitStr(s) THEN IntToStr(StrToInt(s)) ELSE s

sanitize_name(name) ==
    LET n1 == MapChars(NfkdChar, name)
        n2 == MapChars(LowerChar, n1)
        n3 == MapChars(UmlautChar, n2)
        n4 == MapChars(PathChar, n3)
        n5 == CollapseWhite(n4)
        n6 == MapChars(CommaChar, n5)
        n7 == MapChars(AllowedChar, n6)
        n8 == CollapseRuns("-", "--", CollapseRuns(".", "..", CollapseRuns("_", "_", n7)))
        n9 == Strip(n8)
        n10 == StripLeadingZeros(n9)
    IN  IF n10 = "" THEN "x" ELSE n10

(***************************************************************************)
(* Paths (pathlib).  RootChain names root itself and the directories above *)
(* it, which Path.parent / Path.name reach from a path close to root.      *)
(***************************************************************************)
Root == <<>>
RootChain == <<"R", "P", "G">>

Parent(p) == SubSeq(p, 1, Len(p) - 1)
Name(p) == p[Len(p)]
IsPrefix(a, b) == Len(a) <= Len(b) /\ SubSeq(b, 1, Len(a)) = a
\* p.relative_to(root).parts
Depth(p) == Len(p)

\* the name of the k-th ancestor of directory p (k = 0: p itself), continuing
\* above root: dirp.name, dirp.parent.name, dirp.parent.parent.name
AncestorName(p, k) ==
    IF k < Len(p) THEN p[Len(p) - k] ELSE RootChain[k - Len(p) + 1]

\* str.rfind('.') (0 when there is no dot)
RECURSIVE LastDot(_)
LastDot(s) ==
    IF Len(s) = 0 THEN 0
    ELSE IF CharAt(s, Len(s)) = "." THEN Len(s)
    ELSE LastDot(SubSeq(s, 1, Len(s) - 1))

\* PurePath.suffix and PurePath.stem of a name
HasSuffix(s) == LastDot(s) > 1 /\ LastDot(s) < Len(s)
Suffix(s) == IF HasSuffix(s) THEN SubSeq(s, LastDot(s), Len(s)) ELSE ""
Stem(s) == IF HasSuffix(s) THEN SubSeq(s, 1, LastDot(s) - 1) ELSE s

LowerStr(s) == MapChars(LowerChar, s)

\* mutant: text files pass the filter as well
IsAllowedOrText(fname) == LowerStr(Suffix(fname)) \in ALLOWED_EXTS \cup {".txt"}

\* Path(f).suffix.lower() in ALLOWED_EXTS
IsAllowedFile(fname) == LowerStr(Suffix(fname)) \in ALLOWED_EXTS

(***************************************************************************)
(* natural_key and sorted(files, key=natural_key).                         *)
(***************************************************************************)
\* the characters in code point order (str comparison)
CodeOrder ==
    "\t !#$%&'()*+,-./0123456789:;<=>?@ABCDEFGHIJKLMNOPQRSTUVWXYZ[]^_abcdefghijklmnopqrstuvwxyz{|}~ÄÖÜßäöü"
CodeIndex == [c \in CharsOf(CodeOrder) |-> IndexIn(c, CodeOrder)]

RECURSIVE StrLess(_, _)
StrLess(a, b) ==
    IF Len(b) = 0 THEN FALSE
    ELSE IF Len(a) = 0 THEN TRUE
    ELSE IF CharAt(a, 1) = CharAt(b, 1) THEN StrLess(Tail(a), Tail(b))
    ELSE CodeIndex[CharAt(a, 1)] < CodeIndex[CharAt(b, 1)]

RECURSIVE TextRunLen(_)
TextRunLen(s) ==
    IF Len(s) > 0 /\ ~IsDigitChar(CharAt(s, 1)) THEN 1 + TextRunLen(Tail(s)) ELSE 0
RECURSIVE DigitRunLen(_)
DigitRunLen(s) ==
    IF Len(s) > 0 /\ IsDigitChar(CharAt(s, 1)) THEN 1 + DigitRunLen(Tail(s)) ELSE 0

\* re.split(r'(\d+)', s): text, digits, text, ..., text
RECURSIVE SplitDigits(_)
SplitDigits(s) ==
    LET t == TextRunLen(s)
        rest == SubSeq(s, t + 1, Len(s))
        d == DigitRunLen(rest)
    IN  IF rest = "" THEN <<SubSeq(s, 1, t)>>
        ELSE <<SubSeq(s, 1, t), SubSeq(rest, 1, d)>> \o SplitDigits(SubSeq(rest, d + 1, Len(rest)))

\* mutant: the name itself is the key
natural_key_plain(s) == <<s>>

\* int(p) if p.isdigit() else p.lower(); digit runs sit at the even positions
natural_key(s) ==
    LET parts == SplitDigits(s)
    IN  [i \in 1..Len(parts) |->
            IF IsDigitStr(parts[i]) THEN StrToInt(parts[i]) ELSE LowerStr(parts[i])]

\* list comparison a < b of two natural keys
RECURSIVE KeyLessFrom(_, _, _)
KeyLessFrom(a, b, i) ==
    IF i > Len(b) THEN FALSE
    ELSE IF i > Len(a) THEN TRUE
    ELSE IF a[i] = b[i] THEN KeyLessFrom(a, b, i + 1)
    ELSE IF i % 2 = 0 THEN a[i] < b[i] ELSE StrLess(a[i], b[i])
KeyLess(a, b) == KeyLessFrom(a, b, 1)

Perms(S) ==
    {f \in [1..Cardinality(S) -> S] : \A i, j \in 1..Cardinality(S) : i # j => f[i] # f[j]}

\* the results sorted() can give for a directory listing of the names S: the
\* listing order is the file system's, so names of equal key come in any order
SortedByKey(S) ==
    {f \in Perms(S) : \A i, j \in 1..Cardinality(S) :
        i < j => ~KeyLess(natural_key(f[j]), natural_key(f[i]))}

(***************************************************************************)
(* The file system below root: ds is the set of directories, fs maps each  *)
(* file path to its content.                                               *)
(***************************************************************************)
ExistsIn(ds, fs, p) == p = Root \/ p \in ds \/ p \in DOMAIN fs
Children(ds, fs, p) == {q \in ds \cup DOMAIN fs : Len(q) = Len(p) + 1 /\ IsPrefix(p, q)}

NoPath == <<"", "RuntimeError">>

\* candidate = parent / f"{base}_dup{i}{ext}"
DupCandidate(target, i) ==
    Parent(target) \o <<Stem(Name(target)) \o "_dup" \o IntToStr(i) \o Suffix(Name(target))>>

\* mutant: the last attempt is not made
UniqueFromShort(ds, fs, target, i, max_attempts) ==
    LET free == {k \in i..(max_attempts - 1) : ~ExistsIn(ds, fs, DupCandidate(target, k))}
    IN  IF free = {} THEN NoPath
        ELSE DupCandidate(target, CHOOSE k \in free : \A j \in free : k <= j)

\* for i in range(1, max_attempts + 1): the first candidate that does not
\* exist is returned; RuntimeError when the range is used up
UniqueFrom(ds, fs, target, i, max_attempts) ==
    IF i <= max_attempts /\ ~ExistsIn(ds, fs, DupCandidate(target, i))
    THEN DupCandidate(target, i)
    ELSE LET free == {k \in i..max_attempts : ~ExistsIn(ds, fs, DupCandidate(target, k))}
         IN  IF free = {} THEN NoPath
             ELSE DupCandidate(target, CHOOSE k \in free : \A j \in free : k <= j)

unique_path(ds, fs, target, max_attempts) ==
    IF ~ExistsIn(ds, fs, target) THEN target
    ELSE UniqueFrom(ds, fs, target, 1, max_attempts)

\* os.rename(src, dst) of a directory can succeed: src is a directory, and dst is
\* absent or an empty directory (which POSIX replaces)
CanRenameDir(ds, fs, src, dst) ==
    /\ src \in ds
    /\ dst \notin DOMAIN fs
    /\ dst \in ds => Children(ds, fs, dst) = {}
    /\ ~IsPrefix(src, dst)

Reprefix(src, dst, p) ==
    IF IsPrefix(src, p) THEN dst \o SubSeq(p, Len(src) + 1, Len(p)) ELSE p

DirsAfterRename(ds, src, dst) == {Reprefix(src, dst, p) : p \in ds \ {dst}}
FilesAfterRename(fs, src, dst) ==
    [q \in {Reprefix(src, dst, p) : p \in DOMAIN fs} |->
        fs[CHOOSE p \in DOMAIN fs : Reprefix(src, dst, p) = q]]

\* all prefixes of p below root: mkdir(parents=True, exist_ok=True)
Prefixes(p) == {SubSeq(p, 1, n) : n \in 1..Len(p)}

RemoveFile(fs, p) == [q \in DOMAIN fs \ {p} |-> fs[q]]
PutFile(fs, p, c) == [q \in DOMAIN fs \cup {p} |-> IF q = p THEN c ELSE fs[q]]
RemoveTree(fs, p) == [q \in {r \in DOMAIN fs : ~IsPrefix(p, r)} |-> fs[q]]

(***************************************************************************)
(* State.                                                                  *)
(***************************************************************************)
VARIABLES
    dirs,        \* the directories below root
    files,       \* file path -> content
    log,         \* the lines write_log appended, in order
    pc,          \* where main() is
    dry,         \* args.dry_run
    faults,      \* I/O operations that have failed so far
    todo,        \* rename_directories_safe: directories of `dirs` not yet reached
    renames,     \* rename_directories_safe: (old, new) of the renames performed
    rbList,      \* the renames still to be replayed by the rollback
    walkTodo,    \* process_files_in_leaf_dirs: directories os.walk has yet to yield
    dirp,        \* the directory being processed
    filesSorted, \* files_sorted
    mappings,    \* (old_path, tmp_file) of the staged files
    seq,         \* seq
    cj,          \* position of the commit loop in mappings
    finalTarget, \* final_target of the mapping being committed
    tree0,       \* the tree as it was when the first run started (Rerun: the second)
    run,         \* 1: first run, 2: a second run on the same tree
    log1,        \* the log of the first run
    fnOp,        \* the function a function-level run applies ("main": a run of main())
    fnArg,       \* its argument
    fnRes,       \* the values it has returned, in order
    args,        \* undo_from_log: args.dry_run, args.force, args.limit
    cwd,         \* undo_from_log: the working directory of the process
    file_ops,    \* undo_from_log: file_ops
    dir_ops,     \* undo_from_log: dir_ops
    applied,     \* undo_from_log: applied
    undo_log     \* undo_from_log: the lines written to undo_log

vars == <<dirs, files, log, pc, dry, faults, todo, renames, rbList, walkTodo, dirp,
          filesSorted, mappings, seq, cj, finalTarget, tree0, run, log1,
          fnOp, fnArg, fnRes, args, cwd, file_ops, dir_ops, applied, undo_log>>

fsVars == <<dirs, files>>
dirPhaseVars == <<todo, renames, rbList>>
filePhaseVars == <<walkTodo, dirp, filesSorted, mappings, seq, cj, finalTarget>>
runVars == <<dry, tree0, run, log1>>
fnVars == <<fnOp, fnArg, fnRes>>
undoVars == <<args, cwd, file_ops, dir_ops, applied, undo_log>>

(***************************************************************************)
(* The trees a run can start on.                                           *)
(***************************************************************************)
Chain(n) == [i \in 1..n |-> "c"]
ChainLens == {0, MAX_RELATIVE_DEPTH, MAX_RELATIVE_DEPTH + 1}
ChainDirs(n) == {Chain(i) : i \in 1..n}
ChainFiles(n) == IF n = 0 THEN {} ELSE {Chain(n) \o <<"f.pdf">>}

CandDirs == {<<"A">>, <<"a,">>, <<"a_dup1">>, <<"A", "B">>}
CandFiles ==
    {<<"A", "B", "2.jpg">>, <<"A", "B", "10.jpg">>, <<"A", "B", "n.txt">>,
     <<"A", "B", "x_a_nr_b_0001.jpg">>, <<"a,", "1.JPG">>, <<"a">>}

\* a root where the name a and every a_dupN that unique_path tries are taken
CrowdDirs == {<<"A">>, <<"A", "B">>}
CrowdFiles == {<<"a">>} \cup {<<"a_dup" \o IntToStr(i)>> : i \in 1..DefaultMaxAttempts}

WellFormed(ds, fs) ==
    /\ \A d \in ds : Parent(d) = Root \/ Parent(d) \in ds
    /\ \A f \in fs : Parent(f) = Root \/ Parent(f) \in ds
    /\ ds \cap fs = {}

Trees ==
    {t \in [d : SUBSET CandDirs, f : SUBSET CandFiles, n : ChainLens, crowd : BOOLEAN] :
        /\ Cardinality(t.d) <= MaxDirs
        /\ Cardinality(t.f) <= MaxFiles
        /\ WellFormed(t.d, t.f)
        /\ t.n > 0 => Cardinality(t.d) <= 1 /\ t.f = {}
        /\ t.crowd => t.n = 0 /\ t.f = {} /\ <<"A">> \in t.d /\ t.d \subseteq CrowdDirs}

Entry(kind, src, dst) == [kind |-> kind, src |-> src, dst |-> dst, dry |-> FALSE]
DryEntry(kind, src, dst) == [kind |-> kind, src |-> src, dst |-> dst, dry |-> TRUE]
Note(kind) == Entry(kind, Root, Root)

\* tmp_root
TmpRoot(isdry) == <<TMP_DIR_PREFIX \o (IF isdry THEN "DRYRUN" ELSE Pid)>>

\* undo_from_log has not been started
NoUndo ==
    /\ args = [dry_run |-> FALSE, force |-> FALSE, limit |-> 0]
    /\ cwd = Root
    /\ file_ops = <<>>
    /\ dir_ops = <<>>
    /\ applied = 0
    /\ undo_log = <<>>

InitRun ==
    /\ \E t \in Trees :
        /\ dirs = t.d \cup ChainDirs(t.n)
        /\ files = [f \in t.f \cup ChainFiles(t.n) \cup (IF t.crowd THEN CrowdFiles ELSE {})
                       |-> f]
    /\ tree0 = [dirs |-> dirs, files |-> files]
    /\ dry \in BOOLEAN
    /\ log = <<>>
    /\ pc = "depth"
    /\ todo = {}
    /\ renames = <<>>
    /\ rbList = <<>>
    /\ walkTodo = {}
    /\ dirp = Root
    /\ filesSorted = <<>>
    /\ mappings = <<>>
    /\ seq = 1
    /\ cj = 1
    /\ finalTarget = Root
    /\ run = 1
    /\ log1 = <<>>
    /\ fnOp = "main"
    /\ fnArg = <<>>
    /\ fnRes = <<>>
    /\ NoUndo

Init ==
    /\ InitRun
    /\ faults = 0

\* an I/O operation may fail while the budget of failures lasts
Outcomes == IF faults < MaxFaults THEN {TRUE, FALSE} ELSE {TRUE}
Fault(ok) == faults' = IF ok THEN faults ELSE faults + 1

(***************************************************************************)
(* main(): the depth check and the temporary directory.                    *)
(***************************************************************************)
\* mutant: the depth of every entry is taken, directories included
MaxDepthOfEntries(ds, fs) ==
    LET depths == {Depth(Parent(p)) : p \in ds \cup DOMAIN fs} \cup {0}
    IN  CHOOSE m \in depths : \A k \in depths : k <= m

\* check_max_relative_depth: the deepest directory that holds a file (the log
\* file lies in root, at depth 0); of the entries rglob("*") finds, those with
\* p.is_file() count, with depth len(p.parent.relative_to(root).parts)
MaxDepthFound(ds, fs) ==
    LET depths == {Depth(Parent(p)) : p \in {q \in ds \cup DOMAIN fs : q \in DOMAIN fs}}
                    \cup {0}
    IN  CHOOSE m \in depths : \A k \in depths : k <= m

\* mutant: the comparison is off by one
check_depth_off_by_one(ds, fs) == MaxDepthFound(ds, fs) <= MAX_RELATIVE_DEPTH + 1

check_max_relative_depth(ds, fs) == MaxDepthFound(ds, fs) <= MAX_RELATIVE_DEPTH

CheckDepth ==
    /\ pc = "depth"
    /\ IF check_max_relative_depth(dirs, files)
       THEN /\ pc' = "tmp"
            /\ log' = log \o <<Note("START"), Note("MAXDEPTH")>>
       ELSE /\ pc' = "aborted"
            /\ log' = log \o <<Note("START"), Note("MAXDEPTH"), Note("ABORTED")>>
    /\ UNCHANGED <<fsVars, faults, dirPhaseVars, filePhaseVars, runVars, fnVars, undoVars>>

\* mutant: the list holds root itself
gather_dirs_and_root(ds) == ds \cup {Root}

\* the directories rglob("*") finds under root: root itself is not among them
gather_dirs(ds) == ds

\* if d == root: continue
IsRoot(d) == d = Root

\* mutant: mkdir(exist_ok=True)
TmpRootExistsNever(ds, fs) == FALSE

\* tmp_root.mkdir(exist_ok=False) raises FileExistsError
TmpRootExists(ds, fs) == ExistsIn(ds, fs, TmpRoot(FALSE))

SetupTmp ==
    /\ pc = "tmp"
    /\ IF dry
       THEN /\ log' = log \o <<Entry("DRY_TMP", Root, TmpRoot(TRUE)), Note("PROGRESS"),
                               Note("PHASE1")>>
            /\ pc' = "dir"
            /\ todo' = gather_dirs(dirs)
            /\ UNCHANGED <<dirs, faults>>
       ELSE IF TmpRootExists(dirs, files)
       THEN /\ log' = log \o <<Entry("ERROR_TMP_EXISTS", Root, TmpRoot(FALSE))>>
            /\ pc' = "returned"
            /\ UNCHANGED <<dirs, faults, todo>>
       ELSE \E ok \in Outcomes :
            /\ Fault(ok)
            /\ IF ok
               THEN /\ dirs' = dirs \cup {TmpRoot(FALSE)}
                    /\ log' = log \o <<Entry("CREATED_TMP", Root, TmpRoot(FALSE)),
                                       Note("PROGRESS"), Note("PHASE1")>>
                    /\ pc' = "dir"
                    /\ todo' = gather_dirs(dirs')
               ELSE /\ log' = log \o <<Note("ERROR_CREATE_TMP")>>
                    /\ pc' = "returned"
                    /\ UNCHANGED <<dirs, todo>>
    /\ UNCHANGED <<files, renames, rbList, filePhaseVars, runVars, fnVars, undoVars>>

(***************************************************************************)
(* rename_directories_safe.                                                *)
(***************************************************************************)
\* mutant: the list is sorted shallowest first
NextDirsShallowest(remaining) ==
    {d \in remaining : \A e \in remaining : Depth(e) >= Depth(d)}

\* gather_dirs_by_depth sorts deepest first and the loop takes the list in
\* order: the next directory is one of the deepest not yet reached (the order
\* among directories of one depth is rglob's)
NextDirs(remaining) ==
    {d \in remaining : \A e \in remaining : Depth(e) <= Depth(d)}

\* mutant: the renames are replayed in the order they were made
RollbackForward(rs) == rs

\* reversed(renames)
RollbackOrder(rs) == [i \in 1..Len(rs) |-> rs[Len(rs) + 1 - i]]

\* mutant: an existing target is not detected
NeedsUniqueNever(ds, fs, isdry, d, new_path) == FALSE

\* new_path.exists() and not dry and not new_path.samefile(d)
NeedsUnique(ds, fs, isdry, d, new_path) ==
    ExistsIn(ds, fs, new_path) /\ ~isdry /\ new_path # d

\* mutant: the dry-run check is missing
DryRunIgnored(isdry) == FALSE

\* if dry: the rename is only logged
DryRunOnly(isdry) == isdry

\* mutant: the loop is left before the list is exhausted
DirPhaseOverEarly(remaining) == TRUE

\* the loop is over: rename_directories_safe returns
DirPhaseOver(remaining) == remaining = {}

\* mutant: a directory is passed over whatever its name
DirSkipAlways(d, new_name) ==
    /\ todo' = todo \ {d}
    /\ UNCHANGED <<fsVars, log, pc, faults, renames, rbList>>

\* if new_name == d.name: continue
DirSkip(d, new_name) ==
    /\ new_name = Name(d)
    /\ todo' = todo \ {d}
    /\ UNCHANGED <<fsVars, log, pc, faults, renames, rbList>>

DirDry(d, new_path) ==
    /\ DryRunOnly(dry)
    /\ log' = log \o <<DryEntry("WOULD_RENAME_DIR", d, new_path)>>
    /\ todo' = todo \ {d}
    /\ UNCHANGED <<fsVars, pc, faults, renames, rbList>>

\* mutant: the directory is skipped and the loop goes on
DirExhaustedSkip(d) ==
    /\ log' = log \o <<Note("ERROR")>>
    /\ todo' = todo \ {d}
    /\ UNCHANGED <<fsVars, pc, faults, renames, rbList>>

DirExhausted(d) ==
    /\ log' = log \o <<Note("ERROR")>>
    /\ pc' = "rollback"
    /\ rbList' = RollbackOrder(renames)
    /\ todo' = todo \ {d}
    /\ UNCHANGED <<fsVars, faults, renames>>

DirRename(d, new_path) ==
    /\ ~DryRunOnly(dry)
    /\ \E ok \in Outcomes :
        /\ Fault(ok)
        /\ IF ok /\ CanRenameDir(dirs, files, d, new_path)
           THEN /\ dirs' = DirsAfterRename(dirs, d, new_path)
                /\ files' = FilesAfterRename(files, d, new_path)
                /\ log' = log \o <<Entry("RENAMED_DIR", d, new_path)>>
                /\ renames' = Append(renames, [old |-> d, new |-> new_path])
                /\ UNCHANGED <<pc, rbList>>
           ELSE /\ log' = log \o <<Entry("ERROR_RENAMING_DIR", d, new_path)>>
                /\ pc' = "rollback"
                /\ rbList' = RollbackOrder(renames)
                /\ UNCHANGED <<fsVars, renames>>
    /\ todo' = todo \ {d}

DirStep ==
    /\ pc = "dir"
    /\ ~DirPhaseOver(todo)
    /\ \E d \in NextDirs(todo) :
        LET new_name == sanitize_name(Name(d))
            new_path == Parent(d) \o <<new_name>>
            target == IF NeedsUnique(dirs, files, dry, d, new_path)
                      THEN unique_path(dirs, files, new_path, DefaultMaxAttempts)
                      ELSE new_path
        IN  IF IsRoot(d)
            THEN /\ todo' = todo \ {d}
                 /\ UNCHANGED <<fsVars, log, pc, faults, renames, rbList>>
            ELSE \/ DirSkip(d, new_name)
                 \/ /\ new_name # Name(d)
                    /\ \/ target = NoPath /\ DirExhausted(d)
                       \/ target # NoPath /\ DirDry(d, target)
                       \/ target # NoPath /\ DirRename(d, target)
    /\ UNCHANGED <<filePhaseVars, runVars, fnVars, undoVars>>

\* mutant: the first failing step ends the rollback
AbortRollback(rest) == <<>>

\* except Exception as rb: the failure is logged and the loop goes on with the
\* renames recorded earlier
AfterRollbackFailure(rest) == rest

\* one step of the rollback loop: if new.exists(): new.rename(old)
RollbackStep ==
    /\ pc = "rollback"
    /\ rbList # <<>>
    /\ LET old == Head(rbList).old
           new == Head(rbList).new
       IN  IF ExistsIn(dirs, files, new)
           THEN \E ok \in Outcomes :
                /\ Fault(ok)
                /\ IF ok /\ CanRenameDir(dirs, files, new, old)
                   THEN /\ dirs' = DirsAfterRename(dirs, new, old)
                        /\ files' = FilesAfterRename(files, new, old)
                        /\ log' = log \o <<Entry("ROLLBACK", new, old)>>
                        /\ rbList' = Tail(rbList)
                   ELSE /\ log' = log \o <<Entry("ERROR_ROLLBACK", new, old)>>
                        /\ rbList' = AfterRollbackFailure(Tail(rbList))
                        /\ UNCHANGED fsVars
           ELSE /\ rbList' = Tail(rbList)
                /\ UNCHANGED <<fsVars, log, faults>>
    /\ UNCHANGED <<pc, todo, renames, filePhaseVars, runVars, fnVars, undoVars>>

\* raise: the exception leaves rename_directories_safe and reaches main()'s
\* except Exception, which removes tmp_root if it exists and raises again
FatalError ==
    /\ pc = "rollback"
    /\ rbList = <<>>
    /\ IF ~dry /\ ExistsIn(dirs, files, TmpRoot(FALSE))
       THEN \E ok \in Outcomes :
            /\ Fault(ok)
            /\ IF ok
               THEN /\ dirs' = {d \in dirs : ~IsPrefix(TmpRoot(FALSE), d)}
                    /\ files' = RemoveTree(files, TmpRoot(FALSE))
                    /\ log' = log \o <<Note("FATAL_ERROR"),
                                       Entry("CLEANED_AFTER_ERROR", Root, TmpRoot(FALSE))>>
               ELSE /\ log' = log \o <<Note("FATAL_ERROR"), Note("ERROR_CLEANUP_AFTER_ERROR")>>
                    /\ UNCHANGED fsVars
       ELSE /\ log' = log \o <<Note("FATAL_ERROR")>>
            /\ UNCHANGED <<fsVars, faults>>
    /\ pc' = "crashed"
    /\ UNCHANGED <<dirPhaseVars, filePhaseVars, runVars, fnVars, undoVars>>

\* the directories of os.walk(root) in which the loop does something: those
\* under tmp_root and those without allow-listed files are passed over.  The
\* file phase changes the files of no directory it has yet to visit, so the
\* directories it would pass over are left out from the start
WalkList(ds, fs, isdry) ==
    {d \in ds \cup {Root} :
        /\ ~IsPrefix(TmpRoot(isdry), d)
        /\ \E g \in DOMAIN fs : Parent(g) = d /\ IsAllowedFile(Name(g))}

\* rename_directories_safe has returned: main() enters the file phase
StartFilePhase ==
    /\ pc = "dir"
    /\ DirPhaseOver(todo)
    /\ log' = log \o <<Note("PHASE2")>>
    /\ pc' = "walk"
    /\ walkTodo' = WalkList(dirs, files, dry)
    /\ UNCHANGED <<fsVars, faults, dirPhaseVars, dirp, filesSorted, mappings, seq, cj,
                   finalTarget, runVars, fnVars, undoVars>>

(***************************************************************************)
(* process_files_in_leaf_dirs.                                             *)
(***************************************************************************)
\* the positions of main() inside process_files_in_leaf_dirs
FilePhaseStates == {"walk", "stage", "commit", "clear", "move"}

\* files: the allow-listed names among the directory's filenames
AllowedIn(fs, d) ==
    {Name(f) : f \in {g \in DOMAIN fs : Parent(g) = d /\ IsAllowedFile(Name(g))}}

\* rootname, father, grandfather
RootnameOf(d) == sanitize_name(AncestorName(d, 0))
\* pathlib: the parent of root lies above root, and is not root
ParentIsRoot(d) == Len(d) = 1
GrandparentIsRoot(d) == Len(d) = 2

father(d) == IF ~ParentIsRoot(d) THEN sanitize_name(AncestorName(d, 1)) ELSE "x"
grandfather(d) == IF ~GrandparentIsRoot(d) THEN sanitize_name(AncestorName(d, 2)) ELSE "x"

\* tmp_sub = tmp_root / "_files_" / dirp.relative_to(root)
TmpSub(isdry, d) == TmpRoot(isdry) \o <<"_files_">> \o d

\* new_name = sanitize_name(f"{grandfather}_{father}_nr_{rootname}_{seq:04d}") + ext
NewName(d, fname, n) ==
    sanitize_name(grandfather(d) \o "_" \o father(d) \o "_nr_" \o RootnameOf(d)
                    \o "_" \o FormatSeq(n))
      \o LowerStr(Suffix(fname))

\* the copy loop is over: every file of files_sorted has been taken
StageOver(n, sorted) == n > Len(sorted)

\* os.walk is top-down: a directory is yielded after the directories above it
NextWalk(remaining) ==
    {d \in remaining : \A e \in remaining : ~(IsPrefix(e, d) /\ e # d)}

WalkStep ==
    /\ pc = "walk"
    /\ walkTodo # {}
    /\ \E d \in NextWalk(walkTodo) :
        /\ walkTodo' = walkTodo \ {d}
        /\ IF IsPrefix(TmpRoot(dry), d) \/ AllowedIn(files, d) = {}
           THEN UNCHANGED <<fsVars, log, pc, faults, dirp, filesSorted, mappings, seq, cj>>
           ELSE /\ dirp' = d
                /\ filesSorted' \in SortedByKey(AllowedIn(files, d))
                /\ mappings' = <<>>
                /\ seq' = 1
                /\ cj' = 1
                /\ IF dry
                   THEN /\ log' = log \o <<DryEntry("WOULD_CREATE_TMP", Root, TmpSub(dry, d))>>
                        /\ pc' = "stage"
                        /\ UNCHANGED <<fsVars, faults>>
                   ELSE \E ok \in Outcomes :
                        /\ Fault(ok)
                        /\ IF ok
                           THEN /\ dirs' = dirs \cup Prefixes(TmpSub(dry, d))
                                /\ pc' = "stage"
                                /\ UNCHANGED log
                           ELSE /\ log' = log \o <<Entry("ERROR_CREATE_TMP_DIR", Root,
                                                         TmpSub(dry, d))>>
                                /\ UNCHANGED <<dirs, pc>>
                        /\ UNCHANGED files
    /\ UNCHANGED <<dirPhaseVars, finalTarget, runVars, fnVars, undoVars>>

\* the rollback of the copies: every staged file that exists is unlinked
RECURSIVE RollbackDeleteLog(_, _, _)
RollbackDeleteLog(ds, fs, ms) ==
    IF ms = <<>> THEN <<>>
    ELSE (IF ExistsIn(ds, fs, Head(ms).tmp)
          THEN <<Entry("ROLLBACK_DELETE", Head(ms).tmp, Root)>> ELSE <<>>)
         \o RollbackDeleteLog(ds, fs, Tail(ms))

FilesAfterRollback(fs, ms) ==
    [q \in DOMAIN fs \ {ms[i].tmp : i \in 1..Len(ms)} |-> fs[q]]

\* where the copy loop stands after the step: in the loop, or at Step 2
AfterCopy(n, sorted) == IF StageOver(n, sorted) THEN "commit" ELSE "stage"

\* Step 1, one file: copy it to the temporary directory under its new name
StageStep ==
    /\ pc = "stage"
    /\ ~StageOver(seq, filesSorted)
    /\ LET fname == filesSorted[seq]
           old_path == dirp \o <<fname>>
           tmp_target == TmpSub(dry, dirp) \o <<NewName(dirp, fname, seq)>>
           tmp_target_u == unique_path(dirs, files, tmp_target, DefaultMaxAttempts)
       IN  IF dry
           THEN /\ log' = log \o <<DryEntry("WOULD_COPY", old_path, tmp_target)>>
                /\ mappings' = Append(mappings, [old |-> old_path, tmp |-> tmp_target])
                /\ seq' = seq + 1
                /\ pc' = AfterCopy(seq', filesSorted)
                /\ UNCHANGED <<fsVars, faults>>
           ELSE IF tmp_target_u = NoPath
           THEN /\ log' = log \o <<Entry("ERROR_UNIQUE_PATH", tmp_target, Root)>>
                            \o RollbackDeleteLog(dirs, files, mappings)
                /\ files' = FilesAfterRollback(files, mappings)
                /\ pc' = "commit"
                /\ UNCHANGED <<dirs, faults, mappings, seq>>
           ELSE \E ok \in Outcomes :
                /\ Fault(ok)
                /\ IF ok /\ old_path \in DOMAIN files /\ Parent(tmp_target_u) \in dirs
                   THEN /\ files' = PutFile(files, tmp_target_u, files[old_path])
                        /\ mappings' = Append(mappings, [old |-> old_path, tmp |-> tmp_target_u])
                        /\ log' = log \o <<Entry("COPIED", old_path, tmp_target_u)>>
                        /\ seq' = seq + 1
                        /\ pc' = AfterCopy(seq', filesSorted)
                   ELSE /\ log' = log \o <<Entry("ERROR_COPY", old_path, Root)>>
                                    \o RollbackDeleteLog(dirs, files, mappings)
                        /\ files' = FilesAfterRollback(files, mappings)
                        /\ pc' = "commit"
                        /\ UNCHANGED <<mappings, seq>>
                /\ UNCHANGED dirs
    /\ cj' = 1
    /\ UNCHANGED <<dirPhaseVars, walkTodo, dirp, filesSorted, finalTarget, runVars, fnVars, undoVars>>

\* final_target = old_path.parent / tmp_file.name
FinalTarget(m) == Parent(m.old) \o <<Name(m.tmp)>>

\* if old_path.exists(): the original is unlinked
DeletesOriginal(ds, fs, m) == ExistsIn(ds, fs, m.old)

\* Step 2 in a dry run: the move is only logged
CommitDry ==
    /\ pc = "commit"
    /\ cj <= Len(mappings)
    /\ dry
    /\ log' = log \o <<DryEntry("WOULD_MOVE", mappings[cj].tmp, FinalTarget(mappings[cj]))>>
    /\ cj' = cj + 1
    /\ UNCHANGED <<fsVars, pc, faults, dirPhaseVars, walkTodo, dirp, filesSorted, mappings,
                   seq, finalTarget, runVars, fnVars, undoVars>>

\* Step 2, first part: delete the original file if it still exists
CommitDelete ==
    /\ pc = "commit"
    /\ cj <= Len(mappings)
    /\ ~dry
    /\ LET m == mappings[cj]
           next(fs) == IF ExistsIn(dirs, fs, FinalTarget(m)) THEN "clear" ELSE "move"
       IN  IF DeletesOriginal(dirs, files, m)
           THEN \E ok \in Outcomes :
                /\ Fault(ok)
                /\ IF ok /\ m.old \in DOMAIN files
                   THEN /\ files' = RemoveFile(files, m.old)
                        /\ log' = log \o <<Entry("DELETED_ORIGINAL", m.old, Root)>>
                        /\ finalTarget' = FinalTarget(m)
                        /\ pc' = next(files')
                        /\ UNCHANGED cj
                   ELSE /\ log' = log \o <<Entry("ERROR_DELETE_ORIGINAL", m.old, Root)>>
                        /\ cj' = cj + 1
                        /\ UNCHANGED <<files, pc, finalTarget>>
           ELSE /\ finalTarget' = FinalTarget(m)
                /\ pc' = next(files)
                /\ UNCHANGED <<files, log, faults, cj>>
    /\ UNCHANGED <<dirs, dirPhaseVars, walkTodo, dirp, filesSorted, mappings, seq, runVars, fnVars, undoVars>>

\* Step 2, second part: an existing file at the final target is unlinked; if
\* that fails the target becomes unique_path(final_target)
CommitClear ==
    /\ pc = "clear"
    /\ \E ok \in Outcomes :
        /\ Fault(ok)
        /\ IF ok /\ finalTarget \in DOMAIN files
           THEN /\ files' = RemoveFile(files, finalTarget)
                /\ pc' = "move"
                /\ UNCHANGED <<log, cj, finalTarget>>
           ELSE LET alt == unique_path(dirs, files, finalTarget, DefaultMaxAttempts)
                IN  /\ UNCHANGED files
                    /\ IF alt = NoPath
                       THEN /\ log' = log \o <<Entry("ERROR_DELETE_EXISTING", finalTarget, Root),
                                               Entry("ERROR_UNIQUE_PATH_FINAL", finalTarget, Root)>>
                            /\ cj' = cj + 1
                            /\ pc' = "commit"
                            /\ UNCHANGED finalTarget
                       ELSE /\ log' = log \o <<Entry("ERROR_DELETE_EXISTING", finalTarget, Root)>>
                            /\ finalTarget' = alt
                            /\ pc' = "move"
                            /\ UNCHANGED cj
    /\ UNCHANGED <<dirs, dirPhaseVars, walkTodo, dirp, filesSorted, mappings, seq, runVars, fnVars, undoVars>>

\* Step 2, third part: tmp_file.replace(final_target)
CommitMove ==
    /\ pc = "move"
    /\ LET m == mappings[cj]
       IN  \E ok \in Outcomes :
           /\ Fault(ok)
           /\ IF ok /\ m.tmp \in DOMAIN files /\ finalTarget \notin dirs
              THEN /\ files' = PutFile(RemoveFile(files, m.tmp), finalTarget, files[m.tmp])
                   /\ log' = log \o <<Entry("RENAMED_FILE", <<Name(m.old)>>,
                                            <<Name(finalTarget)>>)>>
              ELSE /\ log' = log \o <<Entry("ERROR_MOVE_FINAL", m.tmp, finalTarget)>>
                   /\ UNCHANGED files
    /\ cj' = cj + 1
    /\ pc' = "commit"
    /\ UNCHANGED <<dirs, dirPhaseVars, walkTodo, dirp, filesSorted, mappings, seq,
                   finalTarget, runVars, fnVars, undoVars>>

\* after Step 2: the temporary subdirectory is removed if it is empty
TmpSubCleanup ==
    /\ pc = "commit"
    /\ cj > Len(mappings)
    /\ IF ~dry /\ TmpSub(dry, dirp) \in dirs /\ Children(dirs, files, TmpSub(dry, dirp)) = {}
       THEN \E ok \in Outcomes :
            /\ Fault(ok)
            /\ IF ok
               THEN dirs' = dirs \ {TmpSub(dry, dirp)} /\ UNCHANGED log
               ELSE /\ log' = log \o <<Entry("ERROR_REMOVE_TMP_SUB", TmpSub(dry, dirp), Root)>>
                    /\ UNCHANGED dirs
       ELSE UNCHANGED <<dirs, log, faults>>
    /\ pc' = "walk"
    /\ UNCHANGED <<files, dirPhaseVars, walkTodo, dirp, filesSorted, mappings, seq, cj,
                   finalTarget, runVars, fnVars, undoVars>>

(***************************************************************************)
(* main(): the end of the run.                                             *)
(***************************************************************************)
\* shutil.rmtree(tmp_root) after successful completion; if it fails the manual
\* cleanup removes the tree or fails in turn
FinalCleanup ==
    /\ pc = "walk"
    /\ walkTodo = {}
    /\ IF ~dry /\ ExistsIn(dirs, files, TmpRoot(FALSE))
       THEN \E ok \in Outcomes, manual \in BOOLEAN :
            /\ Fault(ok)
            /\ ok => manual
            /\ IF manual
               THEN /\ dirs' = {d \in dirs : ~IsPrefix(TmpRoot(FALSE), d)}
                    /\ files' = RemoveTree(files, TmpRoot(FALSE))
               ELSE UNCHANGED fsVars
            /\ log' = log \o
                 (IF ok THEN <<Entry("REMOVED_TMP", Root, TmpRoot(FALSE))>>
                  ELSE IF manual
                       THEN <<Note("ERROR_CLEANUP"), Entry("MANUALLY_REMOVED_TMP", Root, TmpRoot(FALSE))>>
                       ELSE <<Note("ERROR_CLEANUP"), Note("ERROR_FINAL_CLEANUP")>>)
                 \o <<Note("FINISHED")>>
       ELSE /\ log' = log \o <<Note("FINISHED")>>
            /\ UNCHANGED <<fsVars, faults>>
    /\ pc' = "done"
    /\ UNCHANGED <<dirPhaseVars, filePhaseVars, runVars, fnVars, undoVars>>

\* a real run started on the tree a dry run has left
SecondRun ==
    /\ pc = "done"
    /\ run = 1
    /\ dry
    /\ run' = 2
    /\ dry' = FALSE
    /\ log1' = log
    /\ log' = <<>>
    /\ pc' = "depth"
    /\ faults' = 0
    /\ todo' = {}
    /\ renames' = <<>>
    /\ rbList' = <<>>
    /\ walkTodo' = {}
    /\ dirp' = Root
    /\ filesSorted' = <<>>
    /\ mappings' = <<>>
    /\ seq' = 1
    /\ cj' = 1
    /\ finalTarget' = Root
    /\ UNCHANGED <<fsVars, tree0, fnVars, undoVars>>

Next ==
    \/ CheckDepth
    \/ SetupTmp
    \/ DirStep
    \/ RollbackStep
    \/ FatalError
    \/ StartFilePhase
    \/ WalkStep
    \/ StageStep
    \/ CommitDry
    \/ CommitDelete
    \/ CommitClear
    \/ CommitMove
    \/ TmpSubCleanup
    \/ FinalCleanup
    \/ SecondRun

Spec == Init /\ [][Next]_vars

(***************************************************************************)
(* main(): a run that the user interrupts.                                 *)
(***************************************************************************)
\* KeyboardInterrupt raised inside the try block of main(), during the
\* directory phase or the file phase: no handler below main() catches it; main()
\* logs it, removes tmp_root if it exists and returns
KeyboardInterrupt ==
    /\ pc \in {"dir", "rollback"} \cup FilePhaseStates
    /\ IF ~dry /\ ExistsIn(dirs, files, TmpRoot(FALSE))
       THEN \E ok \in Outcomes :
            /\ Fault(ok)
            /\ IF ok
               THEN /\ dirs' = {d \in dirs : ~IsPrefix(TmpRoot(FALSE), d)}
                    /\ files' = RemoveTree(files, TmpRoot(FALSE))
                    /\ log' = log \o <<Note("INTERRUPTED"),
                                       Entry("CLEANED_INTERRUPTED", Root, TmpRoot(FALSE))>>
               ELSE /\ log' = log \o <<Note("INTERRUPTED"), Note("ERROR_CLEANUP_INTERRUPTED")>>
                    /\ UNCHANGED fsVars
       ELSE /\ log' = log \o <<Note("INTERRUPTED")>>
            /\ UNCHANGED <<fsVars, faults>>
    /\ pc' = "interrupted"
    /\ UNCHANGED <<dirPhaseVars, filePhaseVars, runVars, fnVars, undoVars>>

NextInterrupt ==
    \/ Next
    \/ KeyboardInterrupt

SpecInterrupt == Init /\ [][NextInterrupt]_vars

(***************************************************************************)
(* main(): the script started again on the tree a real run has left.       *)
(***************************************************************************)
\* a second real run, by a process with the same pid, on the tree a finished
\* real run has left; tree0 becomes the tree the second run starts on, and the
\* failures of both runs count towards MaxFaults
Rerun ==
    /\ pc = "done"
    /\ run = 1
    /\ ~dry
    /\ run' = 2
    /\ tree0' = [dirs |-> dirs, files |-> files]
    /\ log' = <<>>
    /\ pc' = "depth"
    /\ todo' = {}
    /\ renames' = <<>>
    /\ rbList' = <<>>
    /\ walkTodo' = {}
    /\ dirp' = Root
    /\ filesSorted' = <<>>
    /\ mappings' = <<>>
    /\ seq' = 1
    /\ cj' = 1
    /\ finalTarget' = Root
    /\ UNCHANGED <<fsVars, dry, faults, log1, fnVars, undoVars>>

RerunInit ==
    /\ InitRun
    /\ ~dry
    /\ faults = 0

NextRerun ==
    \/ CheckDepth
    \/ SetupTmp
    \/ DirStep
    \/ RollbackStep
    \/ FatalError
    \/ StartFilePhase
    \/ WalkStep
    \/ StageStep
    \/ CommitDelete
    \/ CommitClear
    \/ CommitMove
    \/ TmpSubCleanup
    \/ FinalCleanup
    \/ Rerun

SpecRerun == RerunInit /\ [][NextRerun]_vars

(***************************************************************************)
(* parse_log.py: the summary of the log of a run.                          *)
(***************************************************************************)
\* the patterns, tried on the keyword the engine has written before the colon
\* of the line (the kind of the log entry)
REN_DIR_RE(kind) == kind = "RENAMED_DIR"
REN_FILE_RE(kind) == kind = "RENAMED_FILE"
COPIED_RE(kind) == kind \in {"COPIED", "COPIED_TO_TMP"}
REMOVED_OLD_RE(kind) == kind = "REMOVED_OLD"
\* ERROR[_A-Z]*: is searched for, so FATAL_ERROR matches as well
ERROR_RE(kind) == \E i \in 1..(Len(kind) - 4) : SubSeq(kind, i, i + 4) = "ERROR"

\* the list of stats a line is appended to: the first pattern that matches
StatOf(kind) ==
    IF REN_DIR_RE(kind) THEN "renamed_dirs"
    ELSE IF REN_FILE_RE(kind) THEN "renamed_files"
    ELSE IF COPIED_RE(kind) THEN "copied"
    ELSE IF REMOVED_OLD_RE(kind) THEN "removed_old"
    ELSE IF ERROR_RE(kind) THEN "errors"
    ELSE "none"

\* parse_log: a line with the DRY marker sets dry_run and is matched like the
\* others; counts holds the lengths of the lists
parse_log(lg) ==
    LET len(stat) == Cardinality({i \in 1..Len(lg) : StatOf(lg[i].kind) = stat})
    IN  [dry_run |-> \E i \in 1..Len(lg) : lg[i].dry,
         raw_lines |-> Len(lg),
         counts |-> [dirs_renamed |-> len("renamed_dirs"),
                     files_renamed |-> len("renamed_files"),
                     copied |-> len("copied"),
                     removed_old |-> len("removed_old"),
                     errors |-> len("errors")]]

\* main() of parse_log.py, started on the log of a run that has ended
ParseLog ==
    /\ pc \in {"done", "crashed", "aborted", "returned"}
    /\ fnOp' = "parse_log"
    /\ fnArg' = log
    /\ fnRes' = <<parse_log(log)>>
    /\ pc' = "parsed"
    /\ UNCHANGED <<fsVars, log, faults, dirPhaseVars, filePhaseVars, runVars, undoVars>>

NextParse ==
    \/ Next
    \/ ParseLog

SpecParse == Init /\ [][NextParse]_vars

(***************************************************************************)
(* rename_directories_safe: a run in which writing the log can fail right  *)
(* after a directory has been renamed.                                     *)
(***************************************************************************)
\* d.rename(new_path) succeeds and write_log(RENAMED_DIR) raises: the append
\* to renames is not reached and the except branch runs.  If its own
\* write_log succeeds the rollback loop replays renames; if it raises as well
\* the exception leaves the function at once and main() handles it
DirRenameLogFails(d, new_path) ==
    /\ ~DryRunOnly(dry)
    /\ faults < MaxFaults
    /\ CanRenameDir(dirs, files, d, new_path)
    /\ dirs' = DirsAfterRename(dirs, d, new_path)
    /\ files' = FilesAfterRename(files, d, new_path)
    /\ todo' = todo \ {d}
    /\ pc' = "rollback"
    /\ UNCHANGED renames
    /\ \E again \in (IF faults + 1 < MaxFaults THEN BOOLEAN ELSE {TRUE}) :
        IF again
        THEN /\ log' = log \o <<Entry("ERROR_RENAMING_DIR", d, new_path)>>
             /\ rbList' = RollbackOrder(renames)
             /\ faults' = faults + 1
        ELSE /\ rbList' = <<>>
             /\ faults' = faults + 2
             /\ UNCHANGED log

DirStepLogFault ==
    /\ pc = "dir"
    /\ ~DirPhaseOver(todo)
    /\ \E d \in NextDirs(todo) :
        LET new_name == sanitize_name(Name(d))
            new_path == Parent(d) \o <<new_name>>
            target == IF NeedsUnique(dirs, files, dry, d, new_path)
                      THEN unique_path(dirs, files, new_path, DefaultMaxAttempts)
                      ELSE new_path
        IN  /\ ~IsRoot(d)
            /\ new_name # Name(d)
            /\ target # NoPath
            /\ DirRenameLogFails(d, target)
    /\ UNCHANGED <<filePhaseVars, runVars, fnVars, undoVars>>

NextLogFault ==
    \/ Next
    \/ DirStepLogFault

SpecLogFault == Init /\ [][NextLogFault]_vars

(***************************************************************************)
(* undo_from_log.py: the log is parsed, the plan is built in reverse order *)
(* and applied, the file moves first and the directory renames after them. *)
(* No I/O operation of the undo run fails for reasons outside the tree.    *)
(***************************************************************************)
\* the entries that REN_DIR_RE, REN_FILE_RE and COPIED_RE match; the tool
\* writes no REMOVED_OLD line
ParsedKinds == {"RENAMED_DIR", "RENAMED_FILE", "COPIED"}

\* mutant: no line is taken for a dry-run entry
HasDryPrefixNever(entry) == FALSE

\* if DRY_PREFIX in s: write_log has put "DRY: " before the message
HasDryPrefix(entry) == entry.dry

\* parse_log_actions: the lines with the DRY marker are skipped, the others
\* that match give one action each, in the order of the log
RECURSIVE ParseFrom(_, _)
ParseFrom(lg, i) ==
    IF i > Len(lg) THEN <<>>
    ELSE (IF ~HasDryPrefix(lg[i]) /\ lg[i].kind \in ParsedKinds
          THEN <<[type |-> lg[i].kind, from |-> lg[i].src, to |-> lg[i].dst, line |-> i]>>
          ELSE <<>>)
         \o ParseFrom(lg, i + 1)

parse_log_actions(lg) == ParseFrom(lg, 1)

\* mutant: the actions are taken in the order of the log
ForwardActions(acts) == acts

\* reversed(actions)
ReversedActions(acts) == [i \in 1..Len(acts) |-> acts[Len(acts) + 1 - i]]

\* the operations appended for the actions of one type: src is the action's
\* "to" and dst its "from"
OpsOf(acts, type) ==
    LET sel == SelectSeq(ReversedActions(acts), LAMBDA a : a.type = type)
    IN  [i \in 1..Len(sel) |-> [src |-> sel[i].to, dst |-> sel[i].from, line |-> sel[i].line]]

build_undo_plan(acts) ==
    [file_ops |-> OpsOf(acts, "RENAMED_FILE"), dir_ops |-> OpsOf(acts, "RENAMED_DIR")]

\* Path(src): RENAMED_FILE entries carry bare file names (old_path.name and
\* final_target.name), which the process resolves against its working
\* directory; RENAMED_DIR entries carry absolute paths
OpPath(wd, relative, q) == IF relative THEN wd \o q ELSE q

\* what safe_move and safe_rename_dir return, and the tree they leave
Returned(ok, msg, ds, fs) ==
    [ok |-> ok, msg |-> msg, dirs |-> ds, files |-> fs, raised |-> FALSE]
\* an exception leaves the function
Raised(ds, fs) ==
    [ok |-> FALSE, msg |-> "exception", dirs |-> ds, files |-> fs, raised |-> TRUE]

\* Path.replace(dst): a file replaces a file, a directory an empty directory
CanReplace(ds, fs, src, dst) ==
    /\ src \in ds \cup DOMAIN fs
    /\ Parent(dst) = Root \/ Parent(dst) \in ds
    /\ \/ src = dst
       \/ src \in DOMAIN fs /\ dst \notin ds
       \/ src \in ds /\ CanRenameDir(ds, fs, src, dst)

DirsAfterReplace(ds, fs, src, dst) ==
    IF src = dst \/ src \in DOMAIN fs THEN ds ELSE DirsAfterRename(ds, src, dst)

FilesAfterReplace(ds, fs, src, dst) ==
    IF src = dst THEN fs
    ELSE IF src \in DOMAIN fs THEN PutFile(RemoveFile(fs, src), dst, fs[src])
    ELSE FilesAfterRename(fs, src, dst)

ReplaceOrRaise(ds, fs, src, dst, msg) ==
    IF CanReplace(ds, fs, src, dst)
    THEN Returned(TRUE, msg, DirsAfterReplace(ds, fs, src, dst),
                  FilesAfterReplace(ds, fs, src, dst))
    ELSE Raised(ds, fs)

\* bak: the name of dst followed by .bak_undo_<time>
BakPath(dst) == Parent(dst) \o <<Name(dst) \o ".bak_undo_T">>

\* if force: dstp.replace(bak), then srcp.replace(dstp)
Overwrite(ds, fs, src, dst, msg) ==
    LET bak == BakPath(dst)
    IN  IF CanReplace(ds, fs, dst, bak)
        THEN ReplaceOrRaise(DirsAfterReplace(ds, fs, dst, bak),
                            FilesAfterReplace(ds, fs, dst, bak), src, dst, msg)
        ELSE Raised(ds, fs)

\* mutant: an existing target is overwritten whether or not --force is given
MayOverwriteAlways(force) == TRUE

\* if force
MayOverwrite(force) == force

safe_move(ds, fs, src, dst, force) ==
    IF ~ExistsIn(ds, fs, src) THEN Returned(FALSE, "source missing", ds, fs)
    ELSE IF ExistsIn(ds, fs, dst)
    THEN IF MayOverwrite(force)
         THEN Overwrite(ds, fs, src, dst, "overwrote")
         ELSE Returned(FALSE, "target exists", ds, fs)
    ELSE \* dstp.parent.mkdir(parents=True, exist_ok=True)
         IF Prefixes(Parent(dst)) \cap DOMAIN fs # {}
         THEN Raised(ds, fs)
         ELSE ReplaceOrRaise(ds \cup Prefixes(Parent(dst)), fs, src, dst, "moved")

safe_rename_dir(ds, fs, src, dst, force) ==
    IF ~ExistsIn(ds, fs, src) THEN Returned(FALSE, "dir missing", ds, fs)
    ELSE IF ExistsIn(ds, fs, dst)
    THEN IF MayOverwrite(force)
         THEN Overwrite(ds, fs, src, dst, "overwrote dir")
         ELSE Returned(FALSE, "target dir exists", ds, fs)
    ELSE ReplaceOrRaise(ds, fs, src, dst, "renamed dir")

\* the command line of undo_from_log and the directory it is started in
LimitChoices == {0, 1}
ArgSets == [dry_run : BOOLEAN, force : BOOLEAN, limit : LimitChoices]
UndoCwds(ds) == {Root} \cup ds

UndoLine(kind, op, ok, msg) ==
    [kind |-> kind, src |-> op.src, dst |-> op.dst, ok |-> ok, msg |-> msg]
UndoNote(kind) == [kind |-> kind, src |-> Root, dst |-> Root, ok |-> TRUE, msg |-> ""]

\* if args.limit and applied >= args.limit: break
LimitReached == args.limit # 0 /\ applied >= args.limit

\* main(): the log of a real run that has ended is parsed and the plan built
UndoStart ==
    /\ pc \in {"done", "crashed"}
    /\ ~dry
    /\ args' \in ArgSets
    /\ cwd' \in UndoCwds(dirs)
    /\ LET plan == build_undo_plan(parse_log_actions(log))
       IN  /\ file_ops' = plan.file_ops
           /\ dir_ops' = plan.dir_ops
    /\ applied' = 0
    /\ undo_log' = <<UndoNote("UNDO START")>>
    /\ pc' = "undo_files"
    /\ UNCHANGED <<fsVars, log, faults, dirPhaseVars, filePhaseVars, runVars, fnVars>>

\* one turn of a loop of main(): op is applied by the function apply
UndoApply(ops, relative, result_kind, dry_kind, r) ==
    LET op == ops[applied + 1]
    IN  /\ applied' = applied + 1
        /\ IF args.dry_run
           THEN /\ undo_log' = Append(undo_log, UndoLine(dry_kind, op, TRUE, ""))
                /\ UNCHANGED <<fsVars, pc>>
           ELSE /\ dirs' = r.dirs
                /\ files' = r.files
                /\ IF r.raised
                   THEN pc' = "undo_crashed" /\ UNCHANGED undo_log
                   ELSE /\ undo_log' = Append(undo_log, UndoLine(result_kind, op, r.ok, r.msg))
                        /\ UNCHANGED pc
        /\ UNCHANGED <<log, faults, dirPhaseVars, filePhaseVars, runVars, fnVars,
                       args, cwd, file_ops, dir_ops>>

\* for op in file_ops: safe_move
UndoFile ==
    /\ pc = "undo_files"
    /\ applied < Len(file_ops)
    /\ ~LimitReached
    /\ LET op == file_ops[applied + 1]
       IN  UndoApply(file_ops, TRUE, "MOVE_RESULT", "DRY_MOVE",
                     safe_move(dirs, files, OpPath(cwd, TRUE, op.src),
                               OpPath(cwd, TRUE, op.dst), args.force))

\* the first loop is over: applied = 0
UndoFilesOver ==
    /\ pc = "undo_files"
    /\ applied >= Len(file_ops) \/ LimitReached
    /\ pc' = "undo_dirs"
    /\ applied' = 0
    /\ UNCHANGED <<fsVars, log, faults, dirPhaseVars, filePhaseVars, runVars, fnVars,
                   args, cwd, file_ops, dir_ops, undo_log>>

\* for op in dir_ops: safe_rename_dir
UndoDir ==
    /\ pc = "undo_dirs"
    /\ applied < Len(dir_ops)
    /\ ~LimitReached
    /\ LET op == dir_ops[applied + 1]
       IN  UndoApply(dir_ops, FALSE, "RENAME_DIR_RESULT", "DRY_RENAME_DIR",
                     safe_rename_dir(dirs, files, OpPath(cwd, FALSE, op.src),
                                     OpPath(cwd, FALSE, op.dst), args.force))

UndoEnd ==
    /\ pc = "undo_dirs"
    /\ applied >= Len(dir_ops) \/ LimitReached
    /\ pc' = "undo_done"
    /\ undo_log' = Append(undo_log, UndoNote("UNDO END"))
    /\ UNCHANGED <<fsVars, log, faults, dirPhaseVars, filePhaseVars, runVars, fnVars,
                   args, cwd, file_ops, dir_ops, applied>>

\* a real run in which no I/O operation fails (the budget of failures is
\* spent from the start), followed by a run of undo_from_log on its log
UndoInit ==
    /\ InitRun
    /\ ~dry
    /\ faults = MaxFaults

UndoNext ==
    \/ CheckDepth
    \/ SetupTmp
    \/ DirStep
    \/ RollbackStep
    \/ FatalError
    \/ StartFilePhase
    \/ WalkStep
    \/ StageStep
    \/ CommitDelete
    \/ CommitClear
    \/ CommitMove
    \/ TmpSubCleanup
    \/ FinalCleanup
    \/ UndoStart
    \/ UndoFile
    \/ UndoFilesOver
    \/ UndoDir
    \/ UndoEnd

UndoSpec == UndoInit /\ [][UndoNext]_vars

(***************************************************************************)
(* Function-level runs: one call of sanitize_name (and a second call on    *)
(* its result), of unique_path, or of the numbering of one directory       *)
(* listing, on an argument drawn from a bounded set.                       *)
(***************************************************************************)
NameAlphabet == {"A", "0", "7", " ", ",", "_", ".", "-", "ü", "ß", "/", "+"}

RECURSIVE Strings(_)
Strings(n) ==
    IF n = 0 THEN {""}
    ELSE LET S == Strings(n - 1)
         IN  S \cup {t \o c : t \in {u \in S : Len(u) = n - 1}, c \in NameAlphabet}

SanitizeExamples == {"Müller, Straße", "ÄÖÜ äöü", "007", "a  b", "a---b", "a+b/c"}
SanitizeInputs == Strings(MaxLen) \cup SanitizeExamples

\* unique_path: the target, the entries that exist beside it, max_attempts
UniqueTargets == {<<"d", "a.jpg">>, <<"d", "b">>}
UniqueEntries ==
    {<<"d", "a.jpg">>, <<"d", "a_dup1.jpg">>, <<"d", "a_dup2.jpg">>, <<"d", "a_dup3.jpg">>,
     <<"d", "a.jpg_dup1">>, <<"d", "b">>, <<"d", "b_dup1">>, <<"d", "b_dup2">>,
     <<"d", "b_dup3">>}
UniqueInputs ==
    [target : UniqueTargets, existing : SUBSET UniqueEntries, max_attempts : 0..MaxAttempts]

\* the numbering of one directory: the directory and the names os.walk lists
ListingDir == <<"a", "b">>
ListingNames == {"img1.jpg", "img2.jpg", "img10.jpg", "B2.jpg", "a1.jpg", "A1.jpg"}
ListingInputs ==
    {S \in SUBSET ListingNames : S # {} /\ Cardinality(S) <= MaxListing}

\* safe_move and safe_rename_dir: the tree, src, dst and force
MoveDirs == {<<"d">>, <<"e">>}
MoveFiles == {<<"d", "f">>, <<"e", "f">>, <<"g">>}
MovePaths == MoveDirs \cup MoveFiles \cup {<<"h">>}
MoveInputs ==
    {m \in [dirs : SUBSET MoveDirs, files : SUBSET MoveFiles, src : MovePaths,
            dst : MovePaths, force : BOOLEAN] : WellFormed(m.dirs, m.files)}

\* parse_log_actions and build_undo_plan: a log file of up to MaxLogLines
\* lines, each with or without the DRY marker
LogLineKinds == {"RENAMED_DIR", "RENAMED_FILE", "COPIED", "WOULD_RENAME_DIR", "START"}
LogLines ==
    {[kind |-> k, src |-> <<"A">>, dst |-> <<"a">>, dry |-> b] :
        k \in LogLineKinds, b \in BOOLEAN}
LogInputs == UNION {[1..n -> LogLines] : n \in 1..MaxLogLines}

\* check_max_relative_depth: a chain of directories down to two levels below
\* the limit, with a file, allow-listed or not, at some of its levels
DepthLevels == 0..(MAX_RELATIVE_DEPTH + 2)
DepthNames == {"f.pdf", "n.txt"}
DepthInputs ==
    {[dirs |-> ChainDirs(t.n), files |-> {Chain(l) \o <<t.nm>> : l \in t.L}] :
        t \in {u \in [n : DepthLevels, L : SUBSET DepthLevels, nm : DepthNames] :
                 \A l \in u.L : l <= u.n}}

FnInputs(op) ==
    CASE op = "sanitize_name" -> SanitizeInputs
      [] op = "unique_path" -> UniqueInputs
      [] op = "numbering" -> ListingInputs
      [] op = "safe_move" -> MoveInputs
      [] op = "safe_rename_dir" -> MoveInputs
      [] op = "check_max_relative_depth" -> DepthInputs
      [] op = "build_undo_plan" -> LogInputs

FnOps ==
    {"sanitize_name", "unique_path", "numbering", "safe_move", "safe_rename_dir",
     "check_max_relative_depth", "build_undo_plan"}

FnInit ==
    /\ \E op \in FnOps : fnOp = op /\ fnArg \in FnInputs(op)
    /\ fnRes = <<>>
    /\ pc = "fn"
    /\ dirs = {}
    /\ files = <<>>
    /\ tree0 = [dirs |-> {}, files |-> <<>>]
    /\ dry = FALSE
    /\ log = <<>>
    /\ faults = 0
    /\ todo = {}
    /\ renames = <<>>
    /\ rbList = <<>>
    /\ walkTodo = {}
    /\ dirp = Root
    /\ filesSorted = <<>>
    /\ mappings = <<>>
    /\ seq = 1
    /\ cj = 1
    /\ finalTarget = Root
    /\ run = 1
    /\ log1 = <<>>
    /\ NoUndo

mainVars ==
    <<dirs, files, log, pc, dry, faults, todo, renames, rbList, walkTodo, dirp,
      filesSorted, mappings, seq, cj, finalTarget, tree0, run, log1, undoVars>>

\* sanitize_name(name), then sanitize_name of what it returned
FnSanitize ==
    /\ pc = "fn"
    /\ fnOp = "sanitize_name"
    /\ Len(fnRes) < 2
    /\ fnRes' = Append(fnRes, sanitize_name(IF fnRes = <<>> THEN fnArg ELSE fnRes[1]))
    /\ UNCHANGED <<mainVars, fnOp, fnArg>>

\* unique_path(target, max_attempts) beside the existing entries
FnUniquePath ==
    /\ pc = "fn"
    /\ fnOp = "unique_path"
    /\ fnRes = <<>>
    /\ fnRes' = <<unique_path(fnArg.existing, <<>>, fnArg.target, fnArg.max_attempts)>>
    /\ UNCHANGED <<mainVars, fnOp, fnArg>>

\* files_sorted = sorted(files, key=natural_key) and the new_name of each of
\* its files, seq counting from 1
FnNumbering ==
    /\ pc = "fn"
    /\ fnOp = "numbering"
    /\ fnRes = <<>>
    /\ \E sorted \in SortedByKey(fnArg) :
        fnRes' = <<[i \in 1..Len(sorted) |->
                      [old |-> sorted[i], new |-> NewName(ListingDir, sorted[i], i)]]>>
    /\ UNCHANGED <<mainVars, fnOp, fnArg>>

\* safe_move(src, dst, force=force) on the tree of the argument, each file
\* holding its own path as content
FnSafeMove ==
    /\ pc = "fn"
    /\ fnOp = "safe_move"
    /\ fnRes = <<>>
    /\ fnRes' = <<safe_move(fnArg.dirs, [f \in fnArg.files |-> f], fnArg.src, fnArg.dst,
                            fnArg.force)>>
    /\ UNCHANGED <<mainVars, fnOp, fnArg>>

\* safe_rename_dir(src, dst, force=force)
FnSafeRenameDir ==
    /\ pc = "fn"
    /\ fnOp = "safe_rename_dir"
    /\ fnRes = <<>>
    /\ fnRes' = <<safe_rename_dir(fnArg.dirs, [f \in fnArg.files |-> f], fnArg.src,
                                  fnArg.dst, fnArg.force)>>
    /\ UNCHANGED <<mainVars, fnOp, fnArg>>

\* check_max_relative_depth(root, log_path) on the tree of the argument
FnCheckDepth ==
    /\ pc = "fn"
    /\ fnOp = "check_max_relative_depth"
    /\ fnRes = <<>>
    /\ fnRes' = <<check_max_relative_depth(fnArg.dirs, [f \in fnArg.files |-> f])>>
    /\ UNCHANGED <<mainVars, fnOp, fnArg>>

\* build_undo_plan(parse_log_actions(logfile)) on the log of the argument
FnUndoPlan ==
    /\ pc = "fn"
    /\ fnOp = "build_undo_plan"
    /\ fnRes = <<>>
    /\ fnRes' = <<build_undo_plan(parse_log_actions(fnArg))>>
    /\ UNCHANGED <<mainVars, fnOp, fnArg>>

FnNext ==
    \/ FnSanitize
    \/ FnUniquePath
    \/ FnNumbering
    \/ FnSafeMove
    \/ FnSafeRenameDir
    \/ FnCheckDepth
    \/ FnUndoPlan

FnSpec == FnInit /\ [][FnNext]_vars

(***************************************************************************)
(* Vocabulary of the properties.                                           *)
(***************************************************************************)
LogHas(kind) == \E i \in 1..Len(log) : log[i].kind = kind
LastKind == IF log = <<>> THEN "" ELSE log[Len(log)].kind
RealRun == ~dry

\* the paths of the staging subtree
InStaging(p) == IsPrefix(TmpRoot(FALSE), p)
StagedCopies(fs, content) == {q \in DOMAIN fs : InStaging(q) /\ fs[q] = content}

DirRenameKinds == {"RENAMED_DIR", "WOULD_RENAME_DIR"}
DirPhaseKinds == DirRenameKinds \cup {"ROLLBACK", "ERROR_ROLLBACK", "ERROR_RENAMING_DIR"}
CopyKinds == {"COPIED", "WOULD_COPY"}
CommitKinds ==
    {"DELETED_ORIGINAL", "ERROR_DELETE_ORIGINAL", "ERROR_DELETE_EXISTING",
     "ERROR_UNIQUE_PATH_FINAL", "RENAMED_FILE", "ERROR_MOVE_FINAL", "WOULD_MOVE"}
FilePhaseKinds ==
    CopyKinds \cup CommitKinds \cup
    {"WOULD_CREATE_TMP", "ERROR_CREATE_TMP_DIR", "ERROR_COPY", "ERROR_UNIQUE_PATH",
     "ROLLBACK_DELETE", "ERROR_REMOVE_TMP_SUB"}
FilePhasePcs == FilePhaseStates

TreeUnchanged == dirs = tree0.dirs /\ files = tree0.files

\* where the renames performed so far have taken the directory that was at p
RECURSIVE LocFrom(_, _, _)
LocFrom(rs, i, p) ==
    IF i > Len(rs) THEN p ELSE LocFrom(rs, i + 1, Reprefix(rs[i].old, rs[i].new, p))
Loc(p) == LocFrom(renames, 1, p)

(***************************************************************************)
(* C1  Copy-before-delete: whenever the commit phase deletes an original   *)
(* file, a staged copy of that file's content exists in the staging        *)
(* subtree at that moment, also after a stage copy of a later file of the  *)
(* directory failed and the staged copies were rolled back.                *)
(***************************************************************************)
C1_DeletesOriginalNow ==
    /\ pc = "commit"
    /\ RealRun
    /\ cj <= Len(mappings)
    /\ mappings[cj].old \in DOMAIN files
    /\ mappings[cj].old \notin DOMAIN files'

C1_CopyBeforeDelete ==
    [][C1_DeletesOriginalNow => StagedCopies(files, files[mappings[cj].old]) # {}]_vars

(***************************************************************************)
(* C2  A stage-copy failure aborts the directory's batch: once the copy of *)
(* a file of a leaf directory has failed, the staged copies of that        *)
(* directory are gone, no original of the directory is deleted or moved    *)
(* (each is still in the directory under its own name with its content),   *)
(* and the walk goes on to the next directory.                             *)
(***************************************************************************)
C2_FailedCopies == {i \in 1..Len(log) : log[i].kind \in {"ERROR_COPY", "ERROR_UNIQUE_PATH"}}

C2_OriginalsKept(d) ==
    \A c \in DOMAIN tree0.files :
        (Loc(Parent(c)) = d /\ IsAllowedFile(Name(c)))
            => (d \o <<Name(c)>>) \in DOMAIN files /\ files[d \o <<Name(c)>>] = c

C2_StageFailureKeepsOriginals ==
    \A i \in C2_FailedCopies :
        LET d == Parent(log[i].src)
        IN  /\ C2_OriginalsKept(d)
            /\ \A j \in (i + 1)..Len(log) :
                   log[j].kind = "DELETED_ORIGINAL" => Parent(log[j].src) # d
            /\ \A q \in DOMAIN files : ~IsPrefix(TmpSub(FALSE, d), q)

(***************************************************************************)
(* C3  If a directory rename of a real run fails, every directory renamed  *)
(* earlier is renamed back to its original path by the reverse replay, the *)
(* failure leaves rename_directories_safe and the file phase never runs.   *)
(* Amended: the directories are back at their original paths provided no   *)
(* rename of the rollback fails itself.                                    *)
(***************************************************************************)
C3_RenameFailed == RealRun /\ LogHas("ERROR_RENAMING_DIR")
C3_NoFilePhase ==
    /\ pc \in {"rollback", "crashed"}
    /\ \A i \in 1..Len(log) : log[i].kind \notin FilePhaseKinds \cup {"PHASE2"}
C3_Restored ==
    /\ dirs \ {TmpRoot(FALSE)} = tree0.dirs
    /\ files = tree0.files

\* the claim as stated
C3_FailedRenameRestoresAll ==
    C3_RenameFailed => C3_NoFilePhase /\ (pc = "crashed" => C3_Restored)

\* the claim as amended
C3_FailedRenameRestoresUnlessRollbackFails ==
    C3_RenameFailed =>
        /\ C3_NoFilePhase
        /\ (pc = "crashed" /\ ~LogHas("ERROR_ROLLBACK")) => C3_Restored

C3_Witness ==
    /\ C3_RenameFailed
    /\ pc = "crashed"
    /\ Len(renames) >= 2
    /\ ~LogHas("ERROR_ROLLBACK")
    /\ \E i \in 1..Len(log) : log[i].kind = "ROLLBACK" /\ Len(log[i].src) = 2

(***************************************************************************)
(* C4  If a file's directory lies more than 4 levels below root the run    *)
(* aborts right after the depth check: no staging directory is created and *)
(* nothing under root is renamed, copied, moved or deleted.                *)
(***************************************************************************)
C4_TooDeep == \E f \in DOMAIN tree0.files : Len(f) - 1 > MAX_RELATIVE_DEPTH

C4_DepthAbortMutatesNothing ==
    C4_TooDeep =>
        /\ pc \in {"depth", "aborted"}
        /\ TreeUnchanged
        /\ \A i \in 1..Len(log) : log[i].kind \in {"START", "MAXDEPTH", "ABORTED"}

C4_Witness == C4_TooDeep /\ pc = "aborted" /\ RealRun /\ LastKind = "ABORTED"

(***************************************************************************)
(* C5  In a dry run nothing under root is created, renamed, copied, moved  *)
(* or deleted (the staging root is not created either); the run only       *)
(* appends log lines, and every line that describes a rename, copy or move *)
(* carries the DRY marker.                                                 *)
(***************************************************************************)
C5_ActionKinds ==
    {"RENAMED_DIR", "WOULD_RENAME_DIR", "COPIED", "WOULD_COPY", "RENAMED_FILE",
     "WOULD_MOVE", "DELETED_ORIGINAL", "ROLLBACK", "ROLLBACK_DELETE", "WOULD_CREATE_TMP"}

C5_DryRunMutatesNothing ==
    dry =>
        /\ TreeUnchanged
        /\ faults = 0
        /\ \A i \in 1..Len(log) : log[i].kind \in C5_ActionKinds => log[i].dry

C5_Witness ==
    /\ dry
    /\ pc = "done"
    /\ LogHas("WOULD_RENAME_DIR")
    /\ LogHas("WOULD_COPY")
    /\ LogHas("WOULD_MOVE")

(***************************************************************************)
(* C6  A dry run followed by a real run on the unmodified tree logs the    *)
(* same targets: the directories logged as renamed and their targets are   *)
(* the same in both logs, and so is each file's target name.               *)
(***************************************************************************)
C6_DirTargets(l, kind) == {<<l[i].src, l[i].dst>> : i \in {j \in 1..Len(l) : l[j].kind = kind}}
C6_FileTargets(l, kind) ==
    {<<Name(l[i].src), Name(l[i].dst)>> : i \in {j \in 1..Len(l) : l[j].kind = kind}}

C6_DryAndRealLogsAgree ==
    (run = 2 /\ pc = "done" /\ faults = 0) =>
        /\ C6_DirTargets(log1, "WOULD_RENAME_DIR") = C6_DirTargets(log, "RENAMED_DIR")
        /\ C6_FileTargets(log1, "WOULD_COPY") = C6_FileTargets(log, "COPIED")

(***************************************************************************)
(* C7  After a real run that completes without error no staging directory  *)
(* of the tool remains under root: the directories under root are the      *)
(* original ones, under their original or canonical names.                 *)
(***************************************************************************)
C7_NoStagingLeftBehind ==
    (RealRun /\ pc = "done" /\ faults = 0) =>
        /\ TmpRoot(FALSE) \notin dirs
        /\ dirs = {Loc(d) : d \in tree0.dirs}

(***************************************************************************)
(* C8  When two sibling directories sanitize to the same name, after the   *)
(* directory phase of a real run one is named `name` and the other         *)
(* `name_dup1`, both exist with their own contents, and no directory       *)
(* rename ever targets a path that exists and is a different entry.        *)
(* Amended: this holds when no other entry of the parent is named, or is a *)
(* directory that sanitizes to, `name` or `name_dup1`.                     *)
(***************************************************************************)
C8_Clash(d1, d2) ==
    /\ d1 # d2
    /\ Parent(d1) = Parent(d2)
    /\ sanitize_name(Name(d1)) = sanitize_name(Name(d2))

C8_Names(d) == {sanitize_name(Name(d)), sanitize_name(Name(d)) \o "_dup1"}

\* no third entry of the parent stands in the way of the two names
C8_Alone(d1, d2) ==
    \A e \in (tree0.dirs \cup DOMAIN tree0.files) \ {d1, d2} :
        Parent(e) = Parent(d1) =>
            /\ Name(e) \notin C8_Names(d1)
            /\ e \in tree0.dirs => sanitize_name(Name(e)) \notin C8_Names(d1)

C8_KeepsContents(d) ==
    /\ Loc(d) \in dirs
    /\ \A f \in DOMAIN tree0.files :
           IsPrefix(d, f) => Loc(f) \in DOMAIN files /\ files[Loc(f)] = f

C8_AfterDirPhase == RealRun /\ pc = "walk" /\ LastKind = "PHASE2"

C8_Resolved(d1, d2) ==
    /\ {Name(Loc(d1)), Name(Loc(d2))} = C8_Names(d1)
    /\ C8_KeepsContents(d1)
    /\ C8_KeepsContents(d2)

\* a step that renames a directory targets a path that does not exist
C8_TargetFree ==
    (Len(log') > Len(log) /\ log'[Len(log')].kind \in {"RENAMED_DIR", "ROLLBACK"}) =>
        ~ExistsIn(dirs, files, log'[Len(log')].dst)

C9_DeepestFirst ==
    pc = "dir" =>
        \A d \in todo :
            /\ d \in dirs
            /\ \A i \in 1..Len(log) :
                   log[i].kind \in DirRenameKinds =>
                       ~IsPrefix(log[i].src, d) /\ Len(log[i].src) >= Len(d)

C9_Witness ==
    /\ pc = "dir"
    /\ RealRun
    /\ todo # {}
    /\ \E i, j \in 1..Len(renames) :
           i < j /\ IsPrefix(renames[j].old, renames[i].old)

(***************************************************************************)
(* C10  The phases run strictly in order: the depth check is over before   *)
(* any directory rename, the directory phase is over before any file is    *)
(* staged, and within one leaf directory every copy of the stage phase     *)
(* comes before the first delete or move of the commit phase.              *)
(***************************************************************************)
C10_DepthFirst ==
    \A i \in 1..Len(log) :
        log[i].kind \in DirPhaseKinds => \E j \in 1..(i - 1) : log[j].kind = "MAXDEPTH"

C10_DirsBeforeFiles ==
    /\ pc \in FilePhasePcs => todo = {} /\ rbList = <<>> /\ ~LogHas("ERROR_RENAMING_DIR")
    /\ \A j \in 1..Len(log) :
           log[j].kind \in FilePhaseKinds =>
               \A i \in j..Len(log) : log[i].kind \notin DirPhaseKinds

C10_StageBeforeCommit ==
    /\ pc \in {"commit", "clear", "move"} =>
           \/ StageOver(seq, filesSorted)
           \/ LastKind \in CommitKinds \cup {"ERROR_COPY", "ERROR_UNIQUE_PATH", "ROLLBACK_DELETE"}
    /\ \A j \in 1..Len(log) :
           log[j].kind \in CommitKinds =>
               \A k \in (j + 1)..Len(log) :
                   log[k].kind \in CopyKinds =>
                       \A i \in 1..(j - 1) :
                           log[i].kind \in CopyKinds
                               => Parent(log[i].src) # Parent(log[k].src)

C10_PhasesInOrder == C10_DepthFirst /\ C10_DirsBeforeFiles /\ C10_StageBeforeCommit

C10_Witness ==
    /\ pc = "move"
    /\ Len(mappings) >= 2
    /\ cj = 2
    /\ LogHas("RENAMED_DIR")
    /\ LogHas("RENAMED_FILE")

(***************************************************************************)
(* C11  Within a directory the allow-listed files are numbered 1..n        *)
(* without gaps or repeats in the natural order of their names (digit runs *)
(* by value, text runs without regard to case): img1, img2, img10 get      *)
(* 0001, 0002, 0003, the number zero-padded to 4 digits.                   *)
(***************************************************************************)
\* the natural order of the listed names, and the numbers as they are rendered
C11_Rank ==
    [n \in ListingNames |->
        CASE n \in {"a1.jpg", "A1.jpg"} -> 1
          [] n = "B2.jpg" -> 2
          [] n = "img1.jpg" -> 3
          [] n = "img2.jpg" -> 4
          [] n = "img10.jpg" -> 5]
C11_Rendered == <<"0001", "0002", "0003", "0004", "0005", "0006">>

C11_NumberedInNaturalOrder ==
    (fnOp = "numbering" /\ fnRes # <<>>) =>
        LET r == fnRes[1]
        IN  /\ Len(r) = Cardinality(fnArg)
            /\ {r[i].old : i \in 1..Len(r)} = fnArg
            /\ \A i, j \in 1..Len(r) : i < j => C11_Rank[r[i].old] <= C11_Rank[r[j].old]
            /\ \A i \in 1..Len(r) : r[i].new = "x_a_nr_b_" \o C11_Rendered[i] \o ".jpg"

C11_Witness ==
    /\ fnOp = "numbering"
    /\ fnArg = {"img2.jpg", "img10.jpg", "img1.jpg"}
    /\ fnRes = << <<[old |-> "img1.jpg", new |-> "x_a_nr_b_0001.jpg"],
                    [old |-> "img2.jpg", new |-> "x_a_nr_b_0002.jpg"],
                    [old |-> "img10.jpg", new |-> "x_a_nr_b_0003.jpg"]>> >>

(***************************************************************************)
(* C12  The parent and grandparent parts of a new file name come only from *)
(* directories strictly below root and are 'x' otherwise: for a directory  *)
(* at depth 1 both are 'x', at depth 2 the grandparent is 'x' and the      *)
(* parent is the sanitized depth-1 ancestor; the name of root or of a      *)
(* directory above root is in no name generated at depth >= 1.             *)
(***************************************************************************)
C12_StartsWith(name, pre) == Len(name) >= Len(pre) /\ SubSeq(name, 1, Len(pre)) = pre

C12_ContextFromBelowRoot ==
    \A i \in 1..Len(log) :
        log[i].kind \in CopyKinds =>
            LET d == Parent(log[i].src)
                new == Name(log[i].dst)
            IN  /\ Depth(d) = 1 => C12_StartsWith(new, "x_x_nr_")
                /\ Depth(d) = 2 =>
                       C12_StartsWith(new, "x_" \o sanitize_name(d[1]) \o "_nr_")

(***************************************************************************)
(* C13  sanitize_name is idempotent: sanitize_name(sanitize_name(x)) is    *)
(* sanitize_name(x) for every string x.                                    *)
(***************************************************************************)
C13_Idempotent ==
    (fnOp = "sanitize_name" /\ Len(fnRes) = 2) => fnRes[2] = fnRes[1]

C13_Witness ==
    /\ fnOp = "sanitize_name"
    /\ fnArg = "007"
    /\ fnRes = <<"7", "7">>

(***************************************************************************)
(* C14  For every string, the empty one and those made only of disallowed  *)
(* or separator characters included, sanitize_name returns a non-empty     *)
(* string over [a-z0-9._-]; when nothing survives it returns 'x'.          *)
(***************************************************************************)
C14_Charset == CharsOf("abcdefghijklmnopqrstuvwxyz0123456789._-")
C14_Vanishing == {" ", ",", "_", ".", "-", "/", "+"}

C14_NonEmptyOverCharset ==
    (fnOp = "sanitize_name" /\ fnRes # <<>>) =>
        /\ fnRes[1] # ""
        /\ CharsOf(fnRes[1]) \subseteq C14_Charset
        /\ CharsOf(fnArg) \subseteq C14_Vanishing => fnRes[1] = "x"

C14_Witness ==
    /\ fnOp = "sanitize_name"
    /\ fnArg = " ,/"
    /\ fnRes = <<"x">>

(***************************************************************************)
(* C15  sanitize_name maps the umlauts to the digraphs ae, oe, ue and the  *)
(* sharp s to ss: sanitize_name("Müller, Straße") is "mueller_strasse".    *)
(***************************************************************************)
C15_UmlautsToDigraphs ==
    (fnOp = "sanitize_name" /\ fnArg = "Müller, Straße" /\ fnRes # <<>>)
        => fnRes[1] = "mueller_strasse"

(***************************************************************************)
(* C16  unique_path(target, max_attempts) returns target if it does not    *)
(* exist, otherwise parent/(stem_dupN suffix) for the smallest N in        *)
(* 1..max_attempts whose path does not exist; what it returns does not     *)
(* exist; if every N is taken it raises RuntimeError.                      *)
(***************************************************************************)
C16_Digits == <<"1", "2", "3", "4">>
C16_Dup(target, N) ==
    IF target = <<"d", "a.jpg">>
    THEN <<"d", "a_dup" \o C16_Digits[N] \o ".jpg">>
    ELSE <<"d", "b_dup" \o C16_Digits[N]>>

C16_FirstFreeDup ==
    (fnOp = "unique_path" /\ fnRes # <<>>) =>
        LET t == fnArg.target
            E == fnArg.existing
            free == {N \in 1..fnArg.max_attempts : C16_Dup(t, N) \notin E}
            r == fnRes[1]
        IN  /\ t \notin E => r = t
            /\ (t \in E /\ free = {}) => r = NoPath
            /\ (t \in E /\ free # {}) =>
                   \E N \in free : r = C16_Dup(t, N) /\ \A K \in free : N <= K
            /\ r # NoPath => r \notin E

C16_Witness ==
    /\ fnOp = "unique_path"
    /\ fnArg.target = <<"d", "a.jpg">>
    /\ {<<"d", "a.jpg">>, <<"d", "a_dup1.jpg">>} \subseteq fnArg.existing
    /\ fnArg.max_attempts = 2
    /\ fnRes = << <<"d", "a_dup2.jpg">> >>

(***************************************************************************)
(* C17  Collision exhaustion is scoped to its phase.  In the directory     *)
(* phase the renames done so far are rolled back in reverse order and the  *)
(* run aborts without entering the file phase; while a file is staged or   *)
(* committed only the batch of its directory is affected and the run goes  *)
(* on.  Amended: a directory is back at its original path provided no      *)
(* rename of the rollback fails itself.                                    *)
(***************************************************************************)
C17_DirExhausted == RealRun /\ LogHas("ERROR")
C17_FileExhausted == LogHas("ERROR_UNIQUE_PATH") \/ LogHas("ERROR_UNIQUE_PATH_FINAL")
C17_RunGoesOn ==
    /\ pc \in FilePhasePcs \cup {"done"}
    /\ ~LogHas("FATAL_ERROR")
    /\ renames = <<>> \/ \A i \in 1..Len(renames) : renames[i].new \in dirs \cup {TmpRoot(FALSE)}

C18_DeleteOnlyIfPathDiffers ==
    [][C1_DeletesOriginalNow => mappings[cj].old # FinalTarget(mappings[cj])]_vars

(***************************************************************************)
(* C19  When the move of a staged file to its final target fails, the move *)
(* is tried once more with an alternate target from unique_path, and the   *)
(* failure is logged only if that second move fails as well: no single     *)
(* failed move ends in a logged failure.                                   *)
(***************************************************************************)
C19_SingleFailedMove == pc = "move" /\ faults' = faults + 1

C19_FailedMoveRetried ==
    [][C19_SingleFailedMove =>
          (Len(log') = Len(log) \/ log'[Len(log')].kind # "ERROR_MOVE_FINAL")]_vars

(***************************************************************************)
(* C20  If a real run is interrupted during the directory phase or the     *)
(* file phase, then when main returns the staging directory the run        *)
(* created is no longer under root (unless its removal failed and was      *)
(* logged), and every directory rename made before the interruption is     *)
(* still in effect: nothing is rolled back.                                *)
(***************************************************************************)
C20_Interrupted == pc = "interrupted" /\ RealRun

\* the staging root, where the run created it and where its renames took it
C20_StagingLeft == {TmpRoot(FALSE), Loc(TmpRoot(FALSE))} \cap dirs

C20_RenamesInEffect ==
    ~LogHas("ERROR_RENAMING_DIR") /\ ~LogHas("ERROR") =>
        /\ ~LogHas("ROLLBACK")
        /\ \A d \in tree0.dirs : Loc(d) \in dirs

C20_InterruptRemovesStaging ==
    C20_Interrupted =>
        /\ C20_StagingLeft = {} \/ LogHas("ERROR_CLEANUP_INTERRUPTED")
        /\ C20_RenamesInEffect

(***************************************************************************)
(* C22: a file whose extension is not on the allow-list is never copied,   *)
(* renamed, overwritten or deleted: at every moment of a run it exists     *)
(* exactly once, under its own name and with its own content, at the depth *)
(* it had, and no copy of it lies in the staging tree.                     *)
(***************************************************************************)
C22_AllowList == {".tif", ".tiff", ".jpg", ".jpeg", ".png", ".pdf"}
C22_Others == {f \in DOMAIN tree0.files : LowerStr(Suffix(Name(f))) \notin C22_AllowList}

C22_OthersUntouched ==
    \A f \in C22_Others :
        LET at == {p \in DOMAIN files : files[p] = f}
        IN  /\ Cardinality(at) = 1
            /\ \A p \in at : Name(p) = Name(f) /\ Len(p) = Len(f) /\ ~InStaging(p)

\* a real run has renamed a file that lay beside a file off the allow-list
C22_Witness ==
    /\ pc = "done"
    /\ RealRun
    /\ LogHas("RENAMED_FILE")
    /\ <<"A", "B", "n.txt">> \in C22_Others
    /\ <<"a", "b", "n.txt">> \in DOMAIN files
    /\ <<"a", "b", "x_a_nr_b_0001.jpg">> \in DOMAIN files

(***************************************************************************)
(* C23: the root directory itself is never renamed: it is not among the    *)
(* directories the directory phase takes, and no rename, attempted rename  *)
(* or rollback, logged or recorded, has root as its source or its target.  *)
(***************************************************************************)
C23_RootNeverRenamed ==
    /\ Root \notin todo
    /\ \A i \in 1..Len(log) :
         log[i].kind \in DirPhaseKinds => log[i].src # Root /\ log[i].dst # Root
    /\ \A i \in 1..Len(renames) : renames[i].old # Root /\ renames[i].new # Root

\* a real run has renamed a directory that lies directly under root
C23_Witness ==
    /\ pc = "done"
    /\ RealRun
    /\ \E i \in 1..Len(renames) :
         /\ Parent(renames[i].old) = Root
         /\ renames[i].old \in tree0.dirs
         /\ renames[i].new \in dirs

(***************************************************************************)
(* C26: the rollback steps are independent.  As written: when the failure  *)
(* is raised again, every recorded rename has been attempted (it has a     *)
(* ROLLBACK or an ERROR_ROLLBACK entry), whatever happened to the others,  *)
(* and the entry of the fatal error follows all of them.                   *)
(***************************************************************************)
C26_RollbackKinds == {"ROLLBACK", "ERROR_ROLLBACK"}

C26_Attempted(r) ==
    \E j \in 1..Len(log) :
        log[j].kind \in C26_RollbackKinds /\ log[j].src = r.new /\ log[j].dst = r.old

\* the rollback of a directory above r.new has failed: r.new does not exist
C26_BelowFailed(r) ==
    \E j \in 1..Len(log) :
        /\ log[j].kind = "ERROR_ROLLBACK"
        /\ IsPrefix(log[j].dst, r.new)
        /\ log[j].dst # r.new

C26_RaisedAfterRollback ==
    /\ rbList = <<>>
    /\ LogHas("FATAL_ERROR")
    /\ \A j \in 1..Len(log), k \in 1..Len(log) :
         log[j].kind \in C26_RollbackKinds /\ log[k].kind = "FATAL_ERROR" => j < k

C26_EveryStepAttempted ==
    pc = "crashed" =>
        /\ C26_RaisedAfterRollback
        /\ \A i \in 1..Len(renames) : C26_Attempted(renames[i])

\* amended: a recorded rename is attempted unless the rollback of a directory
\* above it has failed, in which case its new path does not exist and the
\* step is passed over without an entry
C26_EveryStepAttemptedIfPresent ==
    pc = "crashed" =>
        /\ C26_RaisedAfterRollback
        /\ \A i \in 1..Len(renames) :
             C26_Attempted(renames[i]) \/ C26_BelowFailed(renames[i])

\* a rollback step has failed and a later step has renamed a directory back
C26_Witness ==
    /\ pc = "crashed"
    /\ \E j \in 1..Len(log), k \in 1..Len(log) :
         /\ j < k
         /\ log[j].kind = "ERROR_ROLLBACK"
         /\ log[k].kind = "ROLLBACK"
         /\ log[k].dst \in dirs

(***************************************************************************)
(* C27: content preservation without failures.  After a real run in which  *)
(* no operation has failed, every directory holds as many allow-listed     *)
(* files as before the run, and the content of each original file is       *)
(* present exactly once, under one of the directory's sequence names.      *)
(***************************************************************************)
C27_Originals(d) ==
    {f \in DOMAIN tree0.files : Parent(f) = d /\ IsAllowedFile(Name(f))}

C27_Now(d) == {p \in DOMAIN files : Parent(p) = d /\ IsAllowedFile(Name(p))}

C27_SequenceNames(d, orig) ==
    {NewName(d, Name(f), k) : f \in orig, k \in 1..Cardinality(orig)}

C27_ContentPreserved ==
    (pc = "done" /\ RealRun /\ faults = 0) =>
        \A d \in tree0.dirs \cup {Root} :
            LET orig == C27_Originals(d)
                now == C27_Now(Loc(d))
            IN  /\ Cardinality(now) = Cardinality(orig)
                /\ \A f \in orig :
                     /\ Cardinality({p \in now : files[p] = f}) = 1
                     /\ \A p \in now :
                          files[p] = f => Name(p) \in C27_SequenceNames(Loc(d), orig)

(***************************************************************************)
(* C28: after a real run that has completed without a failure every        *)
(* directory under root has a canonical name: a name over [a-z0-9._-]      *)
(* that neither starts nor ends with a separator, repeats no separator,    *)
(* and is not a number with a leading zero; sanitize_name returns it as    *)
(* it is.  This includes the directories that received a _dupN suffix.     *)
(***************************************************************************)
C28_Separators == {"_", ".", "-"}
C28_Digits == CharsOf("0123456789")

C28_Canonical(n) ==
    /\ n # ""
    /\ \A i \in 1..Len(n) : SubSeq(n, i, i) \in C14_Charset
    /\ SubSeq(n, 1, 1) \notin C28_Separators
    /\ SubSeq(n, Len(n), Len(n)) \notin C28_Separators
    /\ \A i \in 1..(Len(n) - 1) :
         SubSeq(n, i, i) \in C28_Separators => SubSeq(n, i + 1, i + 1) # SubSeq(n, i, i)
    /\ (\A i \in 1..Len(n) : SubSeq(n, i, i) \in C28_Digits) =>
            (Len(n) = 1 \/ SubSeq(n, 1, 1) # "0")

C30_CleanupKeepsOnlyCopies ==
    [][(pc = "walk" /\ pc' = "done") =>
          \A q \in DOMAIN files :
              (InStaging(q) /\ q \notin DOMAIN files') =>
                  \E p \in DOMAIN files' : files'[p] = files[q]]_vars

(***************************************************************************)
(* C29: the rollback list holds exactly the directory renames performed so *)
(* far, in order: while the directory phase of a real run is under way,    *)
(* and when its rollback is about to start, every directory of the tree    *)
(* (the staging root included) is where the recorded renames, applied in   *)
(* order to its original path, put it; no directory has been renamed on    *)
(* disk without being in the list.                                         *)
(***************************************************************************)
C29_BeforeRollback ==
    pc = "dir" \/ (pc = "rollback" /\ Len(rbList) = Len(renames))

C29_RollbackListMatchesDisk ==
    (RealRun /\ C29_BeforeRollback) =>
        /\ \A d \in tree0.dirs \cup {TmpRoot(FALSE)} : Loc(d) \in dirs
        /\ rbList \in {<<>>, RollbackOrder(renames)}

(***************************************************************************)
(* C21: round trip with the undo tool.  After a real run that has finished *)
(* without an error and has kept the content of every file, a complete run *)
(* of undo_from_log on its log (no --force, no --dry-run, no --limit)      *)
(* leaves every directory and every file of the original tree at its       *)
(* original path with its content.                                         *)
(***************************************************************************)
C21_FullUndo ==
    /\ pc = "undo_done"
    /\ LogHas("FINISHED")
    /\ ~args.force /\ ~args.dry_run /\ args.limit = 0
    /\ \A f \in DOMAIN tree0.files : \E q \in DOMAIN files : files[q] = f

C21_UndoRestoresTree ==
    C21_FullUndo =>
        /\ \A d \in tree0.dirs : d \in dirs
        /\ \A f \in DOMAIN tree0.files : f \in DOMAIN files /\ files[f] = f

(***************************************************************************)
(* C25: the undo plan.  file_ops holds one operation for each RENAMED_FILE *)
(* line of the log and dir_ops one for each RENAMED_DIR line, each list in *)
(* reverse log order, the source of an operation being the destination of  *)
(* its line and its destination the source; and in the undo log every      *)
(* file line precedes every directory line, all file operations having     *)
(* been taken when the first directory operation is (unless --limit cuts   *)
(* the loop short).                                                        *)
(***************************************************************************)
C25_UndoPcs == {"undo_files", "undo_dirs", "undo_done"}
C25_FileKinds == {"MOVE_RESULT", "DRY_MOVE"}
C25_DirKinds == {"RENAME_DIR_RESULT", "DRY_RENAME_DIR"}

C25_Lines(kind) == {i \in 1..Len(log) : log[i].kind = kind /\ ~log[i].dry}

C25_PlanFor(ops, kind) ==
    /\ {ops[k].line : k \in 1..Len(ops)} = C25_Lines(kind)
    /\ Len(ops) = Cardinality(C25_Lines(kind))
    /\ \A k \in 1..Len(ops) :
         /\ ops[k].src = log[ops[k].line].dst
         /\ ops[k].dst = log[ops[k].line].src
         /\ k < Len(ops) => ops[k].line > ops[k + 1].line

\* every file line of the undo log precedes every directory line, and the
\* lines follow the two lists
C25_FilesBeforeDirs ==
    /\ \A j \in 1..Len(undo_log), k \in 1..Len(undo_log) :
         (undo_log[j].kind \in C25_DirKinds /\ undo_log[k].kind \in C25_FileKinds) => k < j
    /\ \A j \in 1..Len(undo_log) :
         LET n == Cardinality({k \in 1..j : undo_log[k].kind = undo_log[j].kind})
         IN  /\ undo_log[j].kind \in C25_FileKinds =>
                    undo_log[j].src = file_ops[n].src /\ undo_log[j].dst = file_ops[n].dst
             /\ undo_log[j].kind \in C25_DirKinds =>
                    undo_log[j].src = dir_ops[n].src /\ undo_log[j].dst = dir_ops[n].dst

\* when a directory operation has been taken, every file operation has been
C25_AllFilesTaken ==
    (\E j \in 1..Len(undo_log) : undo_log[j].kind \in C25_DirKinds) =>
        Cardinality({k \in 1..Len(undo_log) : undo_log[k].kind \in C25_FileKinds})
            = Len(file_ops)

C24_Calls == {"safe_move", "safe_rename_dir"}
C24_Exists(q) == q \in fnArg.dirs \cup fnArg.files

C24_RefusedWithoutChange ==
    (fnOp \in C24_Calls /\ fnRes # <<>> /\ ~fnArg.force
        /\ (C24_Exists(fnArg.dst) \/ ~C24_Exists(fnArg.src))) =>
        /\ ~fnRes[1].ok
        /\ ~fnRes[1].raised
        /\ fnRes[1].dirs = fnArg.dirs
        /\ DOMAIN fnRes[1].files = fnArg.files
        /\ \A f \in fnArg.files : fnRes[1].files[f] = f

\* safe_move has refused to move a file onto an existing file
C24_Witness ==
    /\ fnOp = "safe_move"
    /\ fnRes # <<>>
    /\ ~fnArg.force
    /\ fnArg.src = <<"d", "f">>
    /\ fnArg.dst = <<"g">>
    /\ {fnArg.src, fnArg.dst} \subseteq fnArg.files
    /\ ~fnRes[1].ok
    /\ fnRes[1].msg = "target exists"

(***************************************************************************)
(* C31: interruption never loses file content.  When a real run is         *)
(* interrupted in the file phase, every original allow-listed file whose   *)
(* content some file under root held before the interrupt handler ran is   *)
(* still the content of some file under root after it has run.             *)
(***************************************************************************)
C31_Held(fs, f) == \E p \in DOMAIN fs : fs[p] = f

C31_InterruptKeepsContent ==
    [][(pc \in FilePhaseStates /\ RealRun /\ pc' = "interrupted") =>
          \A f \in DOMAIN tree0.files :
              (IsAllowedFile(Name(f)) /\ C31_Held(files, f)) => C31_Held(files', f)]_vars

(***************************************************************************)
(* C32: sequence assignment is deterministic.  The numbering of the names  *)
(* of a directory is a function of the set of names: whatever order the    *)
(* directory listing has, sorted() gives the order the numbering has used, *)
(* also for names of equal natural key.                                    *)
(***************************************************************************)
C32_OrderOf(r) == [i \in 1..Len(r) |-> r[i].old]

C32_NumberingDeterministic ==
    (fnOp = "numbering" /\ fnRes # <<>>) =>
        \A sorted \in SortedByKey(fnArg) : sorted = C32_OrderOf(fnRes[1])

(***************************************************************************)
(* C33: the whole run is idempotent on names.  A second real run on the    *)
(* tree a real run without failures has left renames no directory and      *)
(* leaves every allow-listed file under the name and with the content it   *)
(* had after the first run.                                                *)
(***************************************************************************)
\* the run in progress is a real run started on the tree of a real run
C33_SecondRealRun ==
    /\ run = 2
    /\ RealRun
    /\ log1 = <<>>

C33_FilesKept ==
    \A f \in DOMAIN tree0.files :
        IsAllowedFile(Name(f)) => f \in DOMAIN files /\ files[f] = tree0.files[f]

C33_DirsKept == tree0.dirs \subseteq dirs

C33_SecondRunRenamesNothing ==
    (C33_SecondRealRun /\ pc = "done" /\ faults = 0) =>
        /\ ~LogHas("RENAMED_DIR")
        /\ C33_DirsKept
        /\ C33_FilesKept

(***************************************************************************)
(* C34: check_max_relative_depth returns True exactly when every file      *)
(* under root, allow-listed or not, lies in a directory at most 4 levels   *)
(* below root: a file at depth 4 passes, a file at depth 5 fails, and      *)
(* directories that hold no file do not influence the result.              *)
(***************************************************************************)
C34_Called == fnOp = "check_max_relative_depth" /\ fnRes # <<>>

\* the number of directory components between root and the file's directory
C34_DirComponents(f) == Len(f) - 1

C34_TrueIffWithinFour ==
    C34_Called =>
        (fnRes[1] = TRUE <=> \A f \in fnArg.files : C34_DirComponents(f) <= 4)

\* a file at depth 4 below directories that go two levels deeper: passes
C34_Witness ==
    /\ C34_Called
    /\ fnRes[1] = TRUE
    /\ \E f \in fnArg.files : C34_DirComponents(f) = 4
    /\ \E d \in fnArg.dirs : Len(d) = 6

\* a file at depth 5: fails
C34_WitnessTooDeep ==
    /\ C34_Called
    /\ fnRes[1] = FALSE
    /\ \E f \in fnArg.files : C34_DirComponents(f) = 5
    /\ \A f \in fnArg.files : C34_DirComponents(f) <= 5

(***************************************************************************)
(* C35: if the staging root of the current process already exists under    *)
(* root when a real run starts, the run aborts before the directory phase: *)
(* it goes no further than the depth check and the attempt to create the   *)
(* staging root, logs no rename, copy or delete, and leaves the tree, the  *)
(* staging directory found and what it holds included, as it was.          *)
(***************************************************************************)
\* tree0 is the tree the real run in progress has started on: a dry run before
\* it has changed nothing
C35_StagingExisted == RealRun /\ ExistsIn(tree0.dirs, tree0.files, TmpRoot(FALSE))

C35_Kinds == {"START", "MAXDEPTH", "ABORTED", "ERROR_TMP_EXISTS"}

C35_ExistingStagingAborts ==
    C35_StagingExisted =>
        /\ pc \in {"depth", "tmp", "aborted", "returned"}
        /\ TreeUnchanged
        /\ \A i \in 1..Len(log) : log[i].kind \in C35_Kinds

\* the run has returned on a staging root that holds a staged copy
C35_Witness ==
    /\ C35_StagingExisted
    /\ pc = "returned"
    /\ LastKind = "ERROR_TMP_EXISTS"
    /\ \E f \in DOMAIN files : InStaging(f)

(***************************************************************************)
(* C36: undo_from_log never acts on a dry-run entry.  No operation of the  *)
(* undo plan comes from a log line that carries the DRY marker, and the    *)
(* plan built from a log whose rename lines all carry it is empty: main    *)
(* has no move and no rename to perform.                                   *)
(***************************************************************************)
C36_Planned == fnOp = "build_undo_plan" /\ fnRes # <<>>

C36_Ops(plan) ==
    {plan.file_ops[i] : i \in 1..Len(plan.file_ops)}
      \cup {plan.dir_ops[i] : i \in 1..Len(plan.dir_ops)}

C36_RenameLines(lg) ==
    {i \in 1..Len(lg) : lg[i].kind \in {"RENAMED_DIR", "RENAMED_FILE"}}

C36_DryLinesGiveNoOps ==
    C36_Planned =>
        /\ \A op \in C36_Ops(fnRes[1]) : ~fnArg[op.line].dry
        /\ (\A i \in C36_RenameLines(fnArg) : fnArg[i].dry) => C36_Ops(fnRes[1]) = {}

\* a log with a rename line under the DRY marker and one without it: only
\* the second is in the plan
C36_Witness ==
    /\ C36_Planned
    /\ \E i, j \in C36_RenameLines(fnArg) : fnArg[i].dry /\ ~fnArg[j].dry
    /\ Cardinality(C36_Ops(fnRes[1])) = 1

(***************************************************************************)
(* C37: for the log of a real run the summary of parse_log counts every    *)
(* action kind the engine has logged: dirs_renamed is the number of        *)
(* directory renames, files_renamed the number of file renames, copied the *)
(* number of stage copies and removed_old the number of originals deleted  *)
(* in the commit phase.                                                    *)
(***************************************************************************)
C37_Logged(kind) == Cardinality({i \in 1..Len(log) : log[i].kind = kind})

C37_SummaryCountsLog ==
    (pc = "parsed" /\ RealRun) =>
        LET counts == fnRes[1].counts
        IN  /\ counts.dirs_renamed = C37_Logged("RENAMED_DIR")
            /\ counts.files_renamed = C37_Logged("RENAMED_FILE")
            /\ counts.copied = C37_Logged("COPIED")
            /\ counts.removed_old = C37_Logged("DELETED_ORIGINAL")

============================================================================
